---- MODULE Spec2Model ----
(***************************************************************************)
(* gt-ss: stack detection (findStackBranches), branch pushing with the     *)
(* fallback chain (pushBranch / pushAllBranches), chained pull-request     *)
(* creation (createPrForBranch / createAllPrs) and the run that strings    *)
(* them together (submitStack), over a git commit graph.                   *)
(***************************************************************************)
EXTENDS Integers, Sequences, FiniteSets, TLC

\* Largest commit id of the modelled repository (commits are 0..MaxCommit).
MaxCommit == 3

\* Number of times the tool is run against the same repository and review service.
MaxRuns == 2

\* Largest value or error carried by a Result given to a combinator (values are 0..MaxValue).
MaxValue == 2

Commits == 0 .. MaxCommit

\* Local branch names in the order `git branch --format=%(refname:short)` lists them.
AllLocalBranches == <<"f1", "f2", "f3", "main">>

BranchNames == {AllLocalBranches[i] : i \in 1 .. Len(AllLocalBranches)}

VARIABLES
    parents,        \* commit graph: commit -> set of parent commits
    head,           \* branch name -> commit the branch points at
    currentBranch,  \* result of getCurrentBranch
    baseBranch,     \* result of detectBaseBranch
    pc,             \* position of the run
    ancFail,        \* branches whose merge-base --is-ancestor call exited non-zero though they are ancestors
    cntFail1,       \* branches whose commit-count query failed inside the detection loop
    cntFail2,       \* candidates whose commit-count query failed inside Promise.all
    stack,          \* value returned by findStackBranches
    repo,           \* result of getRepoName ("" when it cannot be determined)
    remote,         \* branch names that exist on origin
    prs,            \* pull requests on the review service, as [head, base]
    branches,       \* createAllPrs parameter: branch names in stack order
    idx,            \* createAllPrs: index of the next branch of the for-loop
    prevBranch,     \* createAllPrs: prevBranch
    results,        \* createAllPrs: results (each with the prBase it was called with)
    allSucceeded,   \* createAllPrs: allSucceeded
    run,            \* number of createAllPrs calls started so far
    faulted,        \* some external call of the current createAllPrs call failed
    prevCodes,      \* result codes of the previous createAllPrs call, by position
    prevFaulted,    \* faulted, for the previous createAllPrs call
    localRefs,      \* branch names for which `git show-ref --verify refs/heads/<name>` succeeds
    allowForcePush, \* config.allowForcePush
    pushIdx,        \* pushAllBranches: index of the next branch of the for-loop
    pushResults,    \* pushAllBranches: results (each with its branch, the pushes attempted
                    \* and whether the branch was on origin when pushBranch was called)
    pushAllSucceeded, \* pushAllBranches: allSucceeded
    headRef,        \* output of `git rev-parse --abbrev-ref HEAD` ("" when it exits non-zero)
    prereq,         \* checkGhPrerequisites: "unchecked", "ok" or the error code it returned
    pushSucceeded,  \* submitStack: pushSucceeded
    prSucceeded,    \* submitStack: prSucceeded
    exitCode,       \* exit code of the process (-1 while it is running)
    finalMessages,  \* final status messages printed by submitStack, in order
    promises,       \* findStackBranches: the promises Promise.all waits for, by candidate index
    mapIdx,         \* findStackBranches: index of the next candidate the map callback is called on
    settledOrder,   \* candidate indices in the order their commit-count lookups completed
    pushCmp,        \* one push followed in both implementations: the outcomes drawn,
                    \* what pushBranch did and what push_branch of stack-submit.sh did
    baseCall,       \* one detectBaseBranch call: what its git calls returned
    prCall,         \* one createPrForBranch call: its result and, when it ran
                    \* `gh pr create`, the title and body it passed
    combo           \* one call of a Result combinator: its name, its arguments, what it
                    \* returned and the arguments it called fn with

detectVars == <<pc, ancFail, cntFail1, cntFail2, stack>>

repoVars == <<parents, head, currentBranch, baseBranch>>

prVars == <<repo, remote, prs, branches, idx, prevBranch, results, allSucceeded,
            run, faulted, prevCodes, prevFaulted>>

pushVars == <<localRefs, allowForcePush, pushIdx, pushResults, pushAllSucceeded>>

submitVars == <<headRef, prereq, pushSucceeded, prSucceeded, exitCode, finalMessages>>

countVars == <<promises, mapIdx, settledOrder>>

\* Variables of the specifications that follow single calls.
callVars == <<countVars, pushCmp, baseCall, prCall, combo>>

vars == <<repoVars, detectVars, prVars, pushVars, submitVars, callVars>>

----------------------------------------------------------------------------
\* Result type (utils/result)

ok(value) == [ok |-> TRUE, value |-> value]

err(error) == [ok |-> FALSE, value |-> error]

----------------------------------------------------------------------------
\* The repository as git sees it

\* Commit graphs: commit 0 is the root, every other commit has one or two
\* parents among the commits created before it.
CommitGraphs ==
    {g \in [Commits -> SUBSET Commits] :
        /\ g[0] = {}
        /\ \A c \in Commits \ {0} :
              /\ g[c] # {}
              /\ g[c] \subseteq 0 .. (c - 1)
              /\ Cardinality(g[c]) <= 2}

RECURSIVE ReachIn(_, _)
\* Commits reachable from c (c included) in graph g.
ReachIn(g, c) == {c} \cup UNION {ReachIn(g, p) : p \in g[c]}

Reach(c) == ReachIn(parents, c)

\* `git rev-list base..branch`: commits reachable from branch but not from base.
RevList(base, branch) == Reach(head[branch]) \ Reach(head[base])

\* `git merge-base --is-ancestor ancestor descendant` exits 0.
MergeBaseIsAncestor(ancestor, descendant) == head[ancestor] \in Reach(head[descendant])

RECURSIVE DecimalDigits(_)
\* stdout of `git rev-list --count`: the decimal digits of n.
DecimalDigits(n) == IF n < 10 THEN <<n>> ELSE Append(DecimalDigits(n \div 10), n % 10)

RECURSIVE parseInt(_)
\* parseInt(stdout, 10) on a digit string.
parseInt(s) == IF Len(s) = 0 THEN 0
               ELSE 10 * parseInt(SubSeq(s, 1, Len(s) - 1)) + s[Len(s)]

\* getCommitCount({base, branch}); failed = the git call exited non-zero.
getCommitCount(base, branch, failed) ==
    IF failed THEN err("COMMAND_FAILED")
    ELSE ok(parseInt(DecimalDigits(Cardinality(RevList(base, branch)))))

\* Mutant of isAncestor: the two arguments of merge-base are swapped.
isAncestorSwapped(ancestor, descendant, failed) ==
    (~failed) /\ MergeBaseIsAncestor(descendant, ancestor)

\* isAncestor({ancestor, descendant}); failed = the git call exited with an error.
isAncestor(ancestor, descendant, failed) ==
    (~failed) /\ MergeBaseIsAncestor(ancestor, descendant)

----------------------------------------------------------------------------
\* findStackBranches

\* allBranches.filter(branch => branch !== baseBranch)
filteredBranches(base) == SelectSeq(AllLocalBranches, LAMBDA b : b # base)

RECURSIVE candidateLoopNoCountCheck(_, _, _, _, _, _)
\* Mutant of candidateLoop: the `value > 0` test is dropped.
candidateLoopNoCountCheck(fb, cands, cur, base, fAnc, fCnt) ==
    IF fb = <<>> THEN cands
    ELSE LET otherBranch == Head(fb)
             take == /\ otherBranch # cur
                     /\ isAncestor(otherBranch, cur, otherBranch \in fAnc)
                     /\ getCommitCount(base, otherBranch, otherBranch \in fCnt).ok
         IN candidateLoopNoCountCheck(Tail(fb), IF take THEN Append(cands, otherBranch) ELSE cands,
                                      cur, base, fAnc, fCnt)

RECURSIVE candidateLoopKeepsCurrent(_, _, _, _, _, _)
\* Mutant of candidateLoop: the `otherBranch === currentBranch` skip is dropped.
candidateLoopKeepsCurrent(fb, cands, cur, base, fAnc, fCnt) ==
    IF fb = <<>> THEN cands
    ELSE LET otherBranch == Head(fb)
             commitsNotInBaseResult == getCommitCount(base, otherBranch, otherBranch \in fCnt)
             take == /\ isAncestor(otherBranch, cur, otherBranch \in fAnc)
                     /\ commitsNotInBaseResult.ok
                     /\ commitsNotInBaseResult.value > 0
         IN candidateLoopKeepsCurrent(Tail(fb),
                                      IF take THEN Append(cands, otherBranch) ELSE cands,
                                      cur, base, fAnc, fCnt)

RECURSIVE candidateLoop(_, _, _, _, _, _)
\* The for-loop over filteredBranches: cands grows by every other branch that
\* is an ancestor of cur and whose commit count relative to base is ok and > 0.
candidateLoop(fb, cands, cur, base, fAnc, fCnt) ==
    IF fb = <<>> THEN cands
    ELSE LET otherBranch == Head(fb)
             commitsNotInBaseResult == getCommitCount(base, otherBranch, otherBranch \in fCnt)
             take == /\ otherBranch # cur
                     /\ isAncestor(otherBranch, cur, otherBranch \in fAnc)
                     /\ commitsNotInBaseResult.ok
                     /\ commitsNotInBaseResult.value > 0
         IN candidateLoop(Tail(fb), IF take THEN Append(cands, otherBranch) ELSE cands,
                          cur, base, fAnc, fCnt)

candidateBranches(cur, base, fAnc, fCnt) ==
    candidateLoop(filteredBranches(base), <<cur>>, cur, base, fAnc, fCnt)

RECURSIVE insertSorted(_, _)
\* Insert x after every element whose commitCount is <= x.commitCount.
insertSorted(s, x) ==
    IF s = <<>> THEN <<x>>
    ELSE IF Head(s).commitCount <= x.commitCount
         THEN <<Head(s)>> \o insertSorted(Tail(s), x)
         ELSE <<x>> \o s

\* Mutant of sortByCommitCount: the sort is forgotten.
sortNotDone(s) == s

RECURSIVE sortDescending(_)
\* Mutant of sortByCommitCount: comparator b.commitCount - a.commitCount.
sortDescending(s) ==
    IF s = <<>> THEN <<>>
    ELSE LET rest == sortDescending(Tail(s))
             before == SelectSeq(rest, LAMBDA x : x.commitCount > Head(s).commitCount)
             after == SelectSeq(rest, LAMBDA x : x.commitCount <= Head(s).commitCount)
         IN before \o <<Head(s)>> \o after

RECURSIVE sortByCommitCount(_)
\* branchInfos.sort((a, b) => a.commitCount - b.commitCount): stable, ascending.
sortByCommitCount(s) ==
    IF s = <<>> THEN <<>>
    ELSE insertSorted(sortByCommitCount(SubSeq(s, 1, Len(s) - 1)), s[Len(s)])

\* Mutant of branchInfos: one failed lookup rejects the whole Promise.all.
branchInfosAllOrNothing(cands, base, fCnt) ==
    IF \E i \in 1 .. Len(cands) : cands[i] \in fCnt THEN <<>>
    ELSE [i \in 1 .. Len(cands) |->
             [name |-> cands[i], commitCount |-> getCommitCount(base, cands[i], FALSE).value]]

\* Promise.all over the candidates, then filter(ok) and map to BranchInfo.
branchInfos(cands, base, fCnt) ==
    LET branchInfosResults ==
            [i \in 1 .. Len(cands) |->
                [branch |-> cands[i],
                 commitCountResult |-> getCommitCount(base, cands[i], cands[i] \in fCnt)]]
        kept == SelectSeq(branchInfosResults, LAMBDA r : r.commitCountResult.ok)
    IN [i \in 1 .. Len(kept) |->
           [name |-> kept[i].branch, commitCount |-> kept[i].commitCountResult.value]]

findStackBranches(cur, base, fAnc, fCnt1, fCnt2) ==
    sortByCommitCount(branchInfos(candidateBranches(cur, base, fAnc, fCnt1), base, fCnt2))

----------------------------------------------------------------------------
\* Query failures can only hit calls that are issued.

\* Other branches for which the loop issues the ancestry query and git would answer yes.
TrueAncestors(cur, base) ==
    {b \in BranchNames \ {cur, base} : MergeBaseIsAncestor(b, cur)}

SeqToSet(s) == {s[i] : i \in 1 .. Len(s)}

\* No createAllPrs call has been made.
PrIdle ==
    /\ idx = 1
    /\ prevBranch = ""
    /\ results = <<>>
    /\ allSucceeded = TRUE
    /\ run = 0
    /\ faulted = FALSE
    /\ prevCodes = <<>>
    /\ prevFaulted = FALSE

\* No pushAllBranches call has been made; every enumerated branch is a local ref.
PushIdle ==
    /\ localRefs = BranchNames
    /\ allowForcePush = FALSE
    /\ pushIdx = 1
    /\ pushResults = <<>>
    /\ pushAllSucceeded = TRUE

\* The parts of submitStack around the three phases have not run.
SubmitIdle ==
    /\ headRef = currentBranch
    /\ prereq = "unchecked"
    /\ pushSucceeded = FALSE
    /\ prSucceeded = FALSE
    /\ exitCode = -1
    /\ finalMessages = <<>>

\* findStackBranches has not reached its Promise.all.
CountIdle ==
    /\ promises = <<>>
    /\ mapIdx = 1
    /\ settledOrder = <<>>

\* No call is followed on its own.
CallsIdle ==
    /\ CountIdle
    /\ pushCmp = <<>>
    /\ baseCall = <<>>
    /\ prCall = <<>>
    /\ combo = <<>>

InitDetect ==
    /\ parents \in CommitGraphs
    /\ head \in [BranchNames -> Commits]
    /\ baseBranch = "main"
    /\ currentBranch = "f3"
    /\ pc = "detect"
    /\ ancFail = {}
    /\ cntFail1 = {}
    /\ cntFail2 = {}
    /\ stack = <<>>
    /\ repo = "owner/repo"
    /\ remote = {}
    /\ prs = {}
    /\ branches = <<>>
    /\ PrIdle
    /\ CallsIdle
    /\ PushIdle
    /\ SubmitIdle

\* submitStack line 65: one call of findStackBranches under some pattern of query failures.
FindStackBranches ==
    /\ pc = "detect"
    /\ \E fAnc \in SUBSET TrueAncestors(currentBranch, baseBranch) :
       \E fCnt1 \in SUBSET (TrueAncestors(currentBranch, baseBranch) \ fAnc) :
       \E fCnt2 \in SUBSET SeqToSet(candidateBranches(currentBranch, baseBranch, fAnc, fCnt1)) :
          /\ ancFail' = fAnc
          /\ cntFail1' = fCnt1
          /\ cntFail2' = fCnt2
          /\ stack' = findStackBranches(currentBranch, baseBranch, fAnc, fCnt1, fCnt2)
    /\ pc' = "detected"
    /\ UNCHANGED <<repoVars, prVars, pushVars, submitVars, callVars>>

NextDetect == FindStackBranches

SpecDetect == InitDetect /\ [][NextDetect]_vars

----------------------------------------------------------------------------
\* createPrForBranch / createAllPrs

\* Outcomes of the external calls of one createPrForBranch invocation:
\* TRUE = that call fails (git exits with an error, gh exits non-zero).
CallFaults == [lsRemote : BOOLEAN, prView : BOOLEAN, revList : BOOLEAN, prCreate : BOOLEAN]

\* Exit code of `git ls-remote --exit-code --heads origin <branch>`: 0 when
\* origin lists the branch, 2 when it lists no such branch, 128 when the
\* remote cannot be read (network, authentication).
lsRemoteExitCode(branch, failed) ==
    IF failed THEN 128 ELSE IF branch \in remote THEN 0 ELSE 2

\* Mutant of branchExistsRemotely: every non-zero exit code reads as "not found".
branchExistsRemotelyNoError(branch, failed) ==
    ok(lsRemoteExitCode(branch, failed) = 0)

\* branchExistsRemotely({branch}): exit 0 -> ok(true), exit 2 -> ok(false), else err.
branchExistsRemotely(branch, failed) ==
    LET lsRemoteExit == lsRemoteExitCode(branch, failed)
    IN IF lsRemoteExit = 0 THEN ok(TRUE)
       ELSE IF lsRemoteExit = 2 THEN ok(FALSE)
       ELSE err("COMMAND_FAILED")

PrExistsFor(branch) == \E p \in prs : p.head = branch

\* Mutant of prViewFound: the lookup never reports a pull request.
prViewNeverFound(branch, failed) == FALSE

\* `gh pr view <branch> --json number,url` exits 0 and prints a PR number.
prViewFound(branch, failed) == (~failed) /\ PrExistsFor(branch)

\* `gh pr create --base prBase --head branch` exits 0; the service refuses a
\* second pull request for the same head and base.
prCreateOk(branch, prBase, failed) ==
    (~failed) /\ [head |-> branch, base |-> prBase] \notin prs

PrResult(code, branch, message) == [code |-> code, branch |-> branch, message |-> message]

\* Mutant of createPrForBranch: the `commitCount === 0` skip is missing.
createPrForBranchNoZeroSkip(branch, prBase, f) ==
    LET existsRemotelyResult == branchExistsRemotely(branch, f.lsRemote)
        commitCountResult == getCommitCount(prBase, branch, f.revList)
    IN IF ~existsRemotelyResult.ok THEN PrResult(1, branch, "Error checking remote status")
       ELSE IF ~existsRemotelyResult.value THEN PrResult(2, branch, "Branch not pushed yet")
       ELSE IF branch = prBase THEN PrResult(2, branch, "Same as base branch")
       ELSE IF prViewFound(branch, f.prView) THEN PrResult(0, branch, "PR already exists")
       ELSE IF ~commitCountResult.ok THEN PrResult(1, branch, "Error getting commit count")
       ELSE IF prCreateOk(branch, prBase, f.prCreate)
            THEN PrResult(0, branch, "PR created successfully")
            ELSE PrResult(1, branch, "Failed to create PR")

\* Mutant of createPrForBranch: the commit count is taken before the lookup
\* of an existing pull request.
createPrForBranchCountFirst(branch, prBase, f) ==
    LET existsRemotelyResult == branchExistsRemotely(branch, f.lsRemote)
        commitCountResult == getCommitCount(prBase, branch, f.revList)
    IN IF ~existsRemotelyResult.ok THEN PrResult(1, branch, "Error checking remote status")
       ELSE IF ~existsRemotelyResult.value THEN PrResult(2, branch, "Branch not pushed yet")
       ELSE IF branch = prBase THEN PrResult(2, branch, "Same as base branch")
       ELSE IF ~commitCountResult.ok THEN PrResult(1, branch, "Error getting commit count")
       ELSE IF commitCountResult.value = 0 THEN PrResult(3, branch, "No commits compared to base")
       ELSE IF prViewFound(branch, f.prView) THEN PrResult(0, branch, "PR already exists")
       ELSE IF prCreateOk(branch, prBase, f.prCreate)
            THEN PrResult(0, branch, "PR created successfully")
            ELSE PrResult(1, branch, "Failed to create PR")

\* createPrForBranch({branch, prBase, repo}) under call outcomes f.
createPrForBranch(branch, prBase, f) ==
    LET existsRemotelyResult == branchExistsRemotely(branch, f.lsRemote)
        commitCountResult == getCommitCount(prBase, branch, f.revList)
    IN IF ~existsRemotelyResult.ok THEN PrResult(1, branch, "Error checking remote status")
       ELSE IF ~existsRemotelyResult.value THEN PrResult(2, branch, "Branch not pushed yet")
       ELSE IF branch = prBase THEN PrResult(2, branch, "Same as base branch")
       ELSE IF prViewFound(branch, f.prView) THEN PrResult(0, branch, "PR already exists")
       ELSE IF ~commitCountResult.ok THEN PrResult(1, branch, "Error getting commit count")
       ELSE IF commitCountResult.value = 0 THEN PrResult(3, branch, "No commits compared to base")
       ELSE IF prCreateOk(branch, prBase, f.prCreate)
            THEN PrResult(0, branch, "PR created successfully")
            ELSE PrResult(1, branch, "Failed to create PR")

\* The calls createPrForBranch issues under f, in order, up to its return.
CallsIssued(branch, prBase, f) ==
    LET r == createPrForBranch(branch, prBase, f)
        pastChecks == r.message \notin {"Error checking remote status", "Branch not pushed yet",
                                        "Same as base branch"}
        pastView == pastChecks /\ r.message # "PR already exists"
        pastCount == pastView /\ r.message \notin {"Error getting commit count",
                                                   "No commits compared to base"}
    IN [lsRemote |-> TRUE, prView |-> pastChecks, revList |-> pastView, prCreate |-> pastCount]

\* Some call that was issued failed although the service could have answered:
\* a failed `gh pr view` counts only when a pull request exists for the branch.
SomeCallFailed(branch, prBase, f) ==
    LET c == CallsIssued(branch, prBase, f)
    IN \/ f.lsRemote
       \/ c.prView /\ f.prView /\ PrExistsFor(branch)
       \/ c.revList /\ f.revList
       \/ c.prCreate /\ f.prCreate

\* Outcome patterns that differ only in calls that are never issued are one pattern.
NormalFaults(branch, prBase) ==
    {f \in CallFaults :
        LET c == CallsIssued(branch, prBase, f)
        IN /\ f.prView => (c.prView /\ PrExistsFor(branch))
           /\ f.revList => c.revList
           /\ f.prCreate => c.prCreate}

Codes(rs) == [i \in 1 .. Len(rs) |-> rs[i].code]

\* Mutant of prBaseFor: every pull request targets the trunk.
prBaseAlwaysTrunk(prev, base) == base

\* const prBase = prevBranch || baseBranch
prBaseFor(prev, base) == IF prev # "" THEN prev ELSE base

\* Mutant of nextPrevBranch: the chain is advanced after every branch.
nextPrevBranchAlways(code, branch, prev) == branch

\* Mutant of nextPrevBranch: a branch skipped for having no commits does not advance the chain.
nextPrevBranchNotOnSkip(code, branch, prev) == IF code \notin {2, 3} THEN branch ELSE prev

\* Mutant of nextPrevBranch: a branch whose pull request failed does not advance the chain.
nextPrevBranchNotOnError(code, branch, prev) == IF code \notin {1, 2} THEN branch ELSE prev

\* Mutant of nextPrevBranch: a branch skipped as not pushed advances the chain.
nextPrevBranchOnNotPushed(code, branch, prev) ==
    IF code # 2 \/ branch \notin remote THEN branch ELSE prev

\* if (result.code !== 2) prevBranch = branch
nextPrevBranch(code, branch, prev) == IF code # 2 THEN branch ELSE prev

\* What `git config --get remote.origin.url` can return: a GitHub URL in one
\* of the three forms getRepoName knows, a URL of another host, or nothing
\* (no origin: exit code 1).
OriginUrlResults ==
    {[exitCode |-> 0, stdout |-> u] :
        u \in {"https://github.com/owner/repo.git", "git@github.com:owner/repo.git",
               "https://github.com/owner/repo", "https://gitlab.com/owner/repo.git"}}
        \cup {[exitCode |-> 1, stdout |-> ""]}

\* process.env.GITHUB_REPOSITORY: unset, or an owner/repo name.
Undefined == "undefined"

GithubRepositoryValues == {Undefined, "owner/repo"}

\* url.match(/github\.com[:/]([^/]+\/[^/]+?)(?:\.git)?$/): the captured
\* owner/repo, "" when the URL does not match.
matchGithubUrl(url) ==
    IF url \in {"https://github.com/owner/repo.git", "git@github.com:owner/repo.git",
                "https://github.com/owner/repo"}
    THEN "owner/repo"
    ELSE ""

\* getRepoName(): owner/repo from the origin URL, else GITHUB_REPOSITORY, else "".
getRepoName(urlResult, githubRepository) ==
    LET fromEnv == IF githubRepository = Undefined THEN "" ELSE githubRepository
    IN IF urlResult.exitCode # 0 \/ urlResult.stdout = "" THEN fromEnv
       ELSE IF matchGithubUrl(urlResult.stdout) # "" THEN matchGithubUrl(urlResult.stdout)
       ELSE fromEnv

\* The names getRepoName can return.
RepoNames == {getRepoName(u, e) : u \in OriginUrlResults, e \in GithubRepositoryValues}

\* Mutant of repoKnown: createAllPrs goes on without a repository name.
repoKnownAlways(repoName) == TRUE

\* if (!repo) { ...; return { allSucceeded: false, results: [] } }
repoKnown(repoName) == repoName # ""

\* Mutant of prAllSucceededAfter: a skipped branch counts as a failure too.
prAllSucceededAfterStrict(all, code) == IF code # 0 THEN FALSE ELSE all

\* if (result.code === 1) allSucceeded = false
prAllSucceededAfter(all, code) == IF code = 1 THEN FALSE ELSE all

\* Entry of createAllPrs up to the for-loop; with no repository name it returns at once.
CreateAllPrs ==
    /\ pc \in {"start", "done"}
    /\ run < MaxRuns
    /\ run' = run + 1
    /\ prevCodes' = Codes(results)
    /\ prevFaulted' = faulted
    /\ faulted' = FALSE
    /\ results' = <<>>
    /\ prevBranch' = ""
    /\ idx' = 1
    /\ IF ~repoKnown(repo)
       THEN allSucceeded' = FALSE /\ pc' = "done"
       ELSE allSucceeded' = TRUE /\ pc' = IF branches = <<>> THEN "done" ELSE "prs"
    /\ UNCHANGED <<repoVars, ancFail, cntFail1, cntFail2, stack, repo, remote, prs, branches,
                   pushVars, submitVars, callVars>>

\* One iteration of the for-loop of createAllPrs; after the last one it returns.
CreatePrStep ==
    /\ pc = "prs"
    /\ idx <= Len(branches)
    /\ LET branch == branches[idx]
           prBase == prBaseFor(prevBranch, baseBranch)
       IN \E f \in NormalFaults(branch, prBase) :
            LET result == createPrForBranch(branch, prBase, f)
            IN /\ results' = Append(results, [code |-> result.code, branch |-> result.branch,
                                              message |-> result.message, prBase |-> prBase])
               /\ allSucceeded' = prAllSucceededAfter(allSucceeded, result.code)
               /\ prevBranch' = nextPrevBranch(result.code, branch, prevBranch)
               /\ prs' = IF result.message = "PR created successfully"
                         THEN prs \cup {[head |-> branch, base |-> prBase]}
                         ELSE prs
               /\ faulted' = (faulted \/ SomeCallFailed(branch, prBase, f))
    /\ idx' = idx + 1
    /\ pc' = IF idx = Len(branches) THEN "done" ELSE "prs"
    /\ UNCHANGED <<repoVars, ancFail, cntFail1, cntFail2, stack, repo, remote, branches,
                   run, prevCodes, prevFaulted, pushVars, submitVars, callVars>>

\* Branches other than the trunk, in enumeration order.
FeatureBranches == filteredBranches("main")

\* Branch lists without repetition, at most as long as there are feature
\* branches; names are interchangeable, so the feature branches of a list are
\* taken in enumeration order.
BranchLists ==
    {s \in UNION {[1 .. n -> BranchNames] : n \in 1 .. Len(FeatureBranches)} :
        /\ \A i, j \in 1 .. Len(s) : i # j => s[i] # s[j]
        /\ LET fs == SelectSeq(s, LAMBDA b : b # "main")
           IN fs = SubSeq(FeatureBranches, 1, Len(fs))}

\* A linear history 0 <- 1 <- ... with the trunk on commit 0.
LinearGraph == [c \in Commits |-> IF c = 0 THEN {} ELSE {c - 1}]

InitPr ==
    /\ parents = LinearGraph
    /\ baseBranch = "main"
    /\ currentBranch = "f3"
    /\ branches \in BranchLists
    /\ head \in [BranchNames -> 0 .. Len(FeatureBranches)]
    /\ \A b \in BranchNames : (b = "main" \/ b \notin SeqToSet(branches)) => head[b] = 0
    /\ remote \in SUBSET SeqToSet(branches)
    /\ repo \in RepoNames
    /\ prs = {}
    /\ pc = "start"
    /\ ancFail = {}
    /\ cntFail1 = {}
    /\ cntFail2 = {}
    /\ stack = <<>>
    /\ PrIdle
    /\ CallsIdle
    /\ PushIdle
    /\ SubmitIdle

NextPr == CreateAllPrs \/ CreatePrStep

SpecPr == InitPr /\ [][NextPr]_vars

----------------------------------------------------------------------------
\* Properties of findStackBranches (checked under SpecDetect)

StackNames == [i \in 1 .. Len(stack) |-> stack[i].name]

InStack(b) == \E i \in 1 .. Len(stack) : stack[i].name = b

NoQueryFailed == ancFail = {} /\ cntFail1 = {} /\ cntFail2 = {}

OtherBranches == BranchNames \ {currentBranch, baseBranch}

\* Number of commits reachable from b but not from baseBranch.
AheadOfBase(b) == Cardinality(RevList(baseBranch, b))

\* C1: when every ancestry and commit-count query succeeds, a local branch
\* other than currentBranch and baseBranch is in the output if and only if it
\* is an ancestor of currentBranch and has more than zero commits beyond baseBranch.
C1_IncludedIffAncestorWithCommits ==
    (pc = "detected" /\ NoQueryFailed) =>
        \A b \in OtherBranches :
            InStack(b) <=> (MergeBaseIsAncestor(b, currentBranch) /\ AheadOfBase(b) > 0)

\* C1 witness: a failure-free detection that includes one other branch and
\* leaves out the other one (an ancestor at zero commits, or a non-ancestor ahead of base).
C1_Witness ==
    /\ pc = "detected" /\ NoQueryFailed
    /\ InStack("f1")
    /\ ~InStack("f2")
    /\ \/ MergeBaseIsAncestor("f2", currentBranch) /\ AheadOfBase("f2") = 0
       \/ ~MergeBaseIsAncestor("f2", currentBranch) /\ AheadOfBase("f2") > 0

\* C2: under every pattern of query failures, every branch of the output
\* other than currentBranch is an ancestor of currentBranch.
C2_OnlyAncestors ==
    pc = "detected" =>
        \A i \in 1 .. Len(stack) :
            stack[i].name # currentBranch => MergeBaseIsAncestor(stack[i].name, currentBranch)

\* C2 witness: some query failed, an unrelated branch with commits beyond
\* baseBranch was left out and an ancestor was kept.
C2_Witness ==
    /\ pc = "detected" /\ ~NoQueryFailed
    /\ \E b \in OtherBranches :
          ~MergeBaseIsAncestor(b, currentBranch) /\ AheadOfBase(b) > 0 /\ ~InStack(b)
    /\ \E b \in OtherBranches : InStack(b)

\* C3 (as claimed): the output always contains currentBranch.
C3_AlwaysContainsCurrent == pc = "detected" => InStack(currentBranch)

IsAncestorChain ==
    \A i \in 1 .. Len(stack) - 1 : MergeBaseIsAncestor(stack[i].name, stack[i + 1].name)

\* C5 (as claimed, read for runs without query failures): the output is an
\* ancestor chain whose last element is currentBranch.
C5_ChainEndingAtCurrent ==
    (pc = "detected" /\ NoQueryFailed) =>
        /\ IsAncestorChain
        /\ Len(stack) > 0
        /\ stack[Len(stack)].name = currentBranch

\* No merge commit is reachable from currentBranch.
LinearHistory == \A c \in Reach(head[currentBranch]) : Cardinality(parents[c]) <= 1

\* C5 (amended): when no merge commit is reachable from currentBranch, each
\* element is an ancestor of the element that follows it, and currentBranch is
\* followed only by branches pointing at currentBranch's own commit.
C5_ChainWhenLinear ==
    (pc = "detected" /\ LinearHistory) =>
        /\ IsAncestorChain
        /\ \A i, j \in 1 .. Len(stack) :
              (i < j /\ stack[i].name = currentBranch) => head[stack[j].name] = head[currentBranch]

\* C5 witness: a three-branch chain on distinct commits of a linear history.
C5_Witness ==
    /\ pc = "detected" /\ LinearHistory
    /\ Len(stack) = 3
    /\ stack[3].name = currentBranch
    /\ head[stack[1].name] # head[stack[2].name]
    /\ head[stack[2].name] # head[stack[3].name]

\* Branches whose commit-count query failed, in the loop or in Promise.all.
CountFailed == cntFail1 \cup cntFail2

\* C25: failed commit-count queries remove from the result exactly the
\* branches they were made for: what detection returns is what it would
\* return without those failures, minus those branches, with the same counts
\* and in the same order.
C25_CountFailureDropsOnlyThatBranch ==
    (pc = "detected")
        => stack = SelectSeq(findStackBranches(currentBranch, baseBranch, ancFail, {}, {}),
                             LAMBDA b : b.name \notin CountFailed)

\* C25 witness: the lookup failed for one of three stacked branches and the
\* other two were returned.
C25_Witness ==
    /\ pc = "detected"
    /\ ancFail = {}
    /\ Cardinality(CountFailed) = 1
    /\ Len(findStackBranches(currentBranch, baseBranch, {}, {}, {})) = 3
    /\ Len(stack) = 2

----------------------------------------------------------------------------
\* Properties of createAllPrs / createPrForBranch (checked under SpecPr)

\* The branch a chained pull request at position i has to target: the most
\* recent earlier branch whose result code was not 2, else the trunk.
ChainBase(i) ==
    LET js == {j \in 1 .. (i - 1) : results[j].code # 2}
    IN IF js = {} THEN baseBranch
       ELSE results[CHOOSE j \in js : \A k \in js : k <= j].branch

ZeroCommits(base, branch) == Cardinality(RevList(base, branch)) = 0

\* C6: the base passed to createPrForBranch for each branch is the most recent
\* earlier branch of the list whose result code was not 2, or baseBranch when
\* there is none.
C6_BaseIsPreviousChainBranch ==
    \A i \in 1 .. Len(results) :
        /\ results[i].branch = branches[i]
        /\ results[i].prBase = ChainBase(i)

\* C6 witness: the third branch gets a pull request against the first one
\* because the second one was skipped with code 2.
C6_Witness ==
    /\ Len(results) = 3
    /\ results[1].code = 0
    /\ results[2].code = 2
    /\ results[3].message = "PR created successfully"
    /\ results[3].prBase = results[1].branch
    /\ [head |-> results[3].branch, base |-> results[1].branch] \in prs

\* C7: a branch with result code 2 is not on the remote or equals its prBase;
\* the step that returns code 2 leaves prevBranch and the pull requests
\* unchanged, and the next branch is processed with the same prBase.
C7_Code2KeepsChain ==
    /\ [][(pc = "prs" /\ Len(results') = Len(results) + 1 /\ results'[Len(results')].code = 2)
             => (prevBranch' = prevBranch /\ prs' = prs)]_vars
    /\ [](\A i \in 1 .. Len(results) :
             results[i].code = 2 =>
                /\ results[i].branch \notin remote \/ results[i].branch = results[i].prBase
                /\ i < Len(results) => results[i + 1].prBase = results[i].prBase)

\* C7 witness: the trunk itself and a branch that is not pushed are both
\* skipped with code 2 and the third branch still targets the trunk.
C7_Witness ==
    /\ Len(results) = 3
    /\ results[1].message = "Same as base branch"
    /\ results[2].message = "Branch not pushed yet"
    /\ results[3].message = "PR created successfully"
    /\ results[3].prBase = baseBranch

\* C8 (as claimed, read for calls that return no error): a branch on the
\* remote, different from its prBase, with zero commits relative to its prBase
\* gets code 3 and the next branch is processed with it as prBase.
C8_ZeroCommitsGivesCode3 ==
    \A i \in 1 .. Len(results) :
        (/\ results[i].branch \in remote
         /\ results[i].branch # results[i].prBase
         /\ ZeroCommits(results[i].prBase, results[i].branch)
         /\ results[i].code # 1)
        => /\ results[i].code = 3
           /\ i < Len(results) => results[i + 1].prBase = results[i].branch

\* C8 (amended): for a branch on the remote, different from its prBase, with
\* zero commits relative to its prBase, no create call is issued; the result
\* is code 3 unless a pull request for the branch is found (code 0) or a query
\* fails (code 1); in each case the next branch is processed with this branch
\* as its prBase.
C8_ZeroCommitsKeepsChain ==
    \A i \in 1 .. Len(results) :
        (/\ results[i].branch \in remote
         /\ results[i].branch # results[i].prBase
         /\ ZeroCommits(results[i].prBase, results[i].branch))
        => /\ results[i].message \in {"No commits compared to base", "PR already exists",
                                      "Error checking remote status", "Error getting commit count"}
           /\ (results[i].code = 0) => PrExistsFor(results[i].branch)
           /\ i < Len(results) => results[i + 1].prBase = results[i].branch

\* C8 witness (scenario D): the second branch has no commits beyond the first
\* and gets code 3; the third branch's pull request is created against the second.
C8_Witness ==
    /\ Len(results) = 3
    /\ results[1].message = "PR created successfully"
    /\ results[2].code = 3
    /\ ZeroCommits(results[1].branch, results[2].branch)
    /\ results[3].message = "PR created successfully"
    /\ results[3].prBase = results[2].branch
    /\ [head |-> results[3].branch, base |-> results[2].branch] \in prs

\* A second or later createAllPrs call has returned.
RerunDone == pc = "done" /\ run >= 2 /\ repo # ""

\* The rerun created nothing, and every position that ended with code 0 in the
\* previous run ends with "PR already exists" now.
RerunIsNoOp ==
    /\ \A i \in 1 .. Len(results) : results[i].message # "PR created successfully"
    /\ \A i \in 1 .. Len(prevCodes) :
          prevCodes[i] = 0 => (results[i].code = 0 /\ results[i].message = "PR already exists")

C10_AtMostOnePrPerHead ==
    \A p, q \in prs : p.head = q.head => p = q

\* C15: a result with code 1 (error) does not end the loop of createAllPrs:
\* allSucceeded is false from then on, the branches after it are still
\* processed (one result per branch when the call returns), and the branch
\* right after it is called with the failed branch as its prBase.
C15_ErrorKeepsGoing ==
    /\ pc = "prs" => (idx = Len(results) + 1 /\ idx <= Len(branches))
    /\ \A i \in 1 .. Len(results) :
          results[i].code = 1
            => /\ ~allSucceeded
               /\ results[i].branch = branches[i]
               /\ i < Len(results) => results[i + 1].prBase = results[i].branch
               /\ pc = "done" => Len(results) = Len(branches)

\* C15 witness: createAllPrs returned, a branch that is not the last got code 1
\* and the branch after it was processed on top of it and got its pull request.
C15_Witness ==
    /\ pc = "done"
    /\ \E i \in 1 .. Len(results) - 1 :
          /\ results[i].code = 1
          /\ results[i + 1].prBase = results[i].branch
          /\ results[i + 1].message = "PR created successfully"

\* Results of the createPrForBranch calls that ran `gh pr create`.
CreateCallIssued(r) == r.message \in {"PR created successfully", "Failed to create PR"}

\* C24: `gh pr create` is run only for a branch that is on the remote, differs
\* from its prBase and has at least one commit that is not in prBase; every
\* pull request on the service has such a head and base.
C24_CreatedPrsAreWellFormed ==
    /\ \A i \in 1 .. Len(results) :
          CreateCallIssued(results[i])
            => /\ results[i].branch \in remote
               /\ results[i].branch # results[i].prBase
               /\ RevList(results[i].prBase, results[i].branch) # {}
    /\ \A p \in prs :
          /\ p.head \in remote
          /\ p.head # p.base
          /\ RevList(p.base, p.head) # {}

\* C24 witness: a call that created a pull request followed by a call for a
\* branch with no commit of its own, which was skipped with code 3.
C24_Witness ==
    \E i \in 1 .. Len(results) - 1 :
        /\ results[i].message = "PR created successfully"
        /\ [head |-> results[i].branch, base |-> results[i].prBase] \in prs
        /\ results[i + 1].code = 3
        /\ RevList(results[i + 1].prBase, results[i + 1].branch) = {}

\* C40: when getRepoName returns no name, createAllPrs returns allSucceeded =
\* false and an empty result list: createPrForBranch is called for no branch,
\* so there is no remote check, no pull request lookup and no pull request.
C40_NoRepoNameNoPrWork ==
    /\ RepoNames = {"", "owner/repo"}
    /\ getRepoName([exitCode |-> 0, stdout |-> "https://gitlab.com/owner/repo.git"], Undefined) = ""
    /\ getRepoName([exitCode |-> 1, stdout |-> ""], Undefined) = ""
    /\ (repo = "" /\ run > 0)
          => /\ pc = "done"
             /\ ~allSucceeded
             /\ results = <<>>
             /\ idx = 1 /\ prevBranch = ""
             /\ ~faulted
             /\ prs = {}

\* C40 witness: createAllPrs returned without a repository name although
\* three branches, all on origin, were passed to it.
C40_Witness ==
    /\ repo = ""
    /\ run > 0
    /\ pc = "done"
    /\ Len(branches) = 3
    /\ SeqToSet(branches) \subseteq remote
    /\ ~allSucceeded

\* results[i] is a pull request createAllPrs created onto a branch of the list.
CreatedOntoBranch(i) ==
    results[i].message = "PR created successfully" /\ results[i].prBase # baseBranch

\* The call for the base of results[i], earlier in the same run.
BaseCalls(i) == {j \in 1 .. i - 1 : results[j].branch = results[i].prBase}

\* C38 as stated: the base of every pull request created onto a branch of
\* the list (here: a base that is on origin) had its remote check answered
\* "exists" earlier in the run.
C38_BaseWasSeenOnRemote ==
    \A i \in 1 .. Len(results) :
        (CreatedOntoBranch(i) /\ results[i].prBase \in remote)
            => \E j \in BaseCalls(i) :
                  results[j].message \notin {"Error checking remote status",
                                             "Branch not pushed yet"}

\* C38 (amended): the base of every pull request created onto a branch of
\* the list was called earlier in the run and its remote check did not
\* answer "not found": it answered "exists" or it failed (code 1, which
\* advances the chain like every code but 2).  A base that is not on origin
\* is one whose check failed.
C38_BaseWasNotSeenMissing ==
    \A i \in 1 .. Len(results) :
        CreatedOntoBranch(i)
            => \E j \in BaseCalls(i) :
                  /\ results[j].code # 2
                  /\ results[j].message # "Branch not pushed yet"
                  /\ (results[i].prBase \notin remote)
                        => (results[j].code = 1
                            /\ results[j].message = "Error checking remote status")

\* C38 witness: a pull request was created onto a branch that is on origin
\* and whose remote check failed earlier in the run.
C38_Witness ==
    \E i \in 1 .. Len(results) :
        /\ CreatedOntoBranch(i)
        /\ results[i].prBase \in remote
        /\ \E j \in BaseCalls(i) : results[j].message = "Error checking remote status"

----------------------------------------------------------------------------
\* pushBranch / pushAllBranches (git/push)

\* type PushStrategy, in the order pushBranch tries them.
PushStrategies == <<"regular", "set-upstream", "force-with-lease", "force">>

\* Outcomes of the `git push` commands one pushBranch call may run:
\* strategy -> TRUE when that command exits 0.
PushOutcomes == [SeqToSet(PushStrategies) -> BOOLEAN]

\* branchExistsLocally({branch}): `git show-ref --verify --quiet refs/heads/<branch>` exits 0.
branchExistsLocally(branch) == branch \in localRefs

\* pushWithStrategy({branch, strategy}): result.exitCode === 0.
pushWithStrategy(strategy, o) == o[strategy]

\* Mutant of pushPlan: the plain force push is tried whatever allowForcePush says.
pushPlanAlwaysForce(existsRemotely, allow) ==
    <<"regular">> \o (IF ~existsRemotely THEN <<"set-upstream">> ELSE <<>>)
                  \o <<"force-with-lease", "force">>

\* The pushes pushBranch runs as long as none succeeds: the regular push, the
\* set-upstream push inside `if (!existsRemotely)` (a failure there falls
\* through), the force-with-lease push, the force push inside `if (allowForcePush)`.
pushPlan(existsRemotely, allow) ==
    <<"regular">> \o (IF ~existsRemotely THEN <<"set-upstream">> ELSE <<>>)
                  \o <<"force-with-lease">>
                  \o (IF allow THEN <<"force">> ELSE <<>>)

\* Mutant of pushAttempts: a successful push does not end the chain.
pushAttemptsAll(plan, o) ==
    [i \in 1 .. Len(plan) |-> [strategy |-> plan[i], ok |-> pushWithStrategy(plan[i], o)]]

\* The pushes actually run: every `if (await pushWithStrategy(...))` returns on success.
RECURSIVE pushAttempts(_, _)
pushAttempts(plan, o) ==
    IF plan = <<>> THEN <<>>
    ELSE LET first == [strategy |-> Head(plan), ok |-> pushWithStrategy(Head(plan), o)]
         IN IF first.ok THEN <<first>> ELSE <<first>> \o pushAttempts(Tail(plan), o)

PushSuccessMessage(strategy) ==
    CASE strategy = "regular" -> "Pushed successfully"
      [] strategy = "set-upstream" -> "Pushed with upstream set"
      [] strategy = "force-with-lease" -> "Force-pushed with lease"
      [] strategy = "force" -> "Force-pushed"

PushFailureMessage(strategy) ==
    IF strategy = "force" THEN "Failed to force push"
    ELSE "Force-with-lease failed; set ALLOW_FORCE_PUSH=1 to allow force push"

\* The git commands one pushBranch call ran, in order: the local check, the
\* remote check, then one push per attempt.
PushCalls(checks, attempts) ==
    checks \o [i \in 1 .. Len(attempts) |-> "push " \o attempts[i].strategy]

\* Mutant of pushBranch: a branch that is missing locally counts as pushed.
pushBranchSkipIsSuccess(branch, allow, lsRemoteFailed, o) ==
    LET existsLocally == branchExistsLocally(branch)
        existsRemotelyResult == branchExistsRemotely(branch, lsRemoteFailed)
        existsRemotely == IF existsRemotelyResult.ok THEN existsRemotelyResult.value ELSE FALSE
        attempts == pushAttempts(pushPlan(existsRemotely, allow), o)
        last == attempts[Len(attempts)]
    IN IF ~existsLocally
       THEN [success |-> TRUE, strategy |-> "regular",
             message |-> "Branch doesn't exist locally", attempts |-> <<>>,
             calls |-> PushCalls(<<"show-ref">>, <<>>)]
       ELSE IF last.ok
            THEN [success |-> TRUE, strategy |-> last.strategy,
                  message |-> PushSuccessMessage(last.strategy), attempts |-> attempts,
                  calls |-> PushCalls(<<"show-ref", "ls-remote">>, attempts)]
            ELSE [success |-> FALSE, strategy |-> last.strategy,
                  message |-> PushFailureMessage(last.strategy), attempts |-> attempts,
                  calls |-> PushCalls(<<"show-ref", "ls-remote">>, attempts)]

\* Mutant of pushBranch: a failed remote check fails the branch at once.
pushBranchFailsOnCheckError(branch, allow, lsRemoteFailed, o) ==
    LET existsLocally == branchExistsLocally(branch)
        existsRemotelyResult == branchExistsRemotely(branch, lsRemoteFailed)
        existsRemotely == IF existsRemotelyResult.ok THEN existsRemotelyResult.value ELSE FALSE
        attempts == pushAttempts(pushPlan(existsRemotely, allow), o)
        last == attempts[Len(attempts)]
    IN IF ~existsLocally
       THEN [success |-> FALSE, strategy |-> "regular",
             message |-> "Branch doesn't exist locally", attempts |-> <<>>,
             calls |-> PushCalls(<<"show-ref">>, <<>>)]
       ELSE IF ~existsRemotelyResult.ok
       THEN [success |-> FALSE, strategy |-> "regular",
             message |-> "Failed to check remote status", attempts |-> <<>>,
             calls |-> PushCalls(<<"show-ref", "ls-remote">>, <<>>)]
       ELSE IF last.ok
            THEN [success |-> TRUE, strategy |-> last.strategy,
                  message |-> PushSuccessMessage(last.strategy), attempts |-> attempts,
                  calls |-> PushCalls(<<"show-ref", "ls-remote">>, attempts)]
            ELSE [success |-> FALSE, strategy |-> last.strategy,
                  message |-> PushFailureMessage(last.strategy), attempts |-> attempts,
                  calls |-> PushCalls(<<"show-ref", "ls-remote">>, attempts)]

\* pushBranch({branch, allowForcePush}) when the remote check fails or not
\* (lsRemoteFailed) and the pushes end as o says; `attempts` lists the
\* pushes it ran, `calls` every git command.
pushBranch(branch, allow, lsRemoteFailed, o) ==
    LET existsLocally == branchExistsLocally(branch)
        existsRemotelyResult == branchExistsRemotely(branch, lsRemoteFailed)
        existsRemotely == IF existsRemotelyResult.ok THEN existsRemotelyResult.value ELSE FALSE
        attempts == pushAttempts(pushPlan(existsRemotely, allow), o)
        last == attempts[Len(attempts)]
    IN IF ~existsLocally
       THEN [success |-> FALSE, strategy |-> "regular",
             message |-> "Branch doesn't exist locally", attempts |-> <<>>,
             calls |-> PushCalls(<<"show-ref">>, <<>>)]
       ELSE IF last.ok
            THEN [success |-> TRUE, strategy |-> last.strategy,
                  message |-> PushSuccessMessage(last.strategy), attempts |-> attempts,
                  calls |-> PushCalls(<<"show-ref", "ls-remote">>, attempts)]
            ELSE [success |-> FALSE, strategy |-> last.strategy,
                  message |-> PushFailureMessage(last.strategy), attempts |-> attempts,
                  calls |-> PushCalls(<<"show-ref", "ls-remote">>, attempts)]

\* Mutant of allSucceededAfter: only the last branch counts.
allSucceededLastOnly(all, success) == success

\* if (!result.success) allSucceeded = false
allSucceededAfter(all, success) == IF ~success THEN FALSE ELSE all

\* One iteration of the for-loop of pushAllBranches; after the last one it
\* returns.  A push that succeeded leaves the branch on origin.
PushBranchStep ==
    /\ pc = "push"
    /\ pushIdx <= Len(branches)
    /\ LET branch == branches[pushIdx]
       IN \E lsRemoteFailed \in BOOLEAN : \E o \in PushOutcomes :
            LET result == pushBranch(branch, allowForcePush, lsRemoteFailed, o)
            IN /\ pushResults' = Append(pushResults,
                     [success |-> result.success, strategy |-> result.strategy,
                      message |-> result.message, branch |-> branch,
                      attempts |-> result.attempts, calls |-> result.calls,
                      onRemote |-> branch \in remote])
               /\ pushAllSucceeded' = allSucceededAfter(pushAllSucceeded, result.success)
               /\ remote' = IF result.success THEN remote \cup {branch} ELSE remote
    /\ pushIdx' = pushIdx + 1
    /\ pc' = IF pushIdx = Len(branches) THEN "pushed" ELSE "push"
    /\ UNCHANGED <<repoVars, ancFail, cntFail1, cntFail2, stack, repo, prs, branches, idx,
                   prevBranch, results, allSucceeded, run, faulted, prevCodes, prevFaulted,
                   localRefs, allowForcePush, submitVars, callVars>>

\* pushAllBranches called with any list of names (a name need not be a local
\* ref), each present on origin or not, force pushes allowed or not.
InitPush ==
    /\ parents = LinearGraph
    /\ head = [b \in BranchNames |-> 0]
    /\ baseBranch = "main"
    /\ currentBranch = "f3"
    /\ branches \in BranchLists
    /\ localRefs \in SUBSET SeqToSet(branches)
    /\ remote \in SUBSET SeqToSet(branches)
    /\ allowForcePush \in BOOLEAN
    /\ pushIdx = 1
    /\ pushResults = <<>>
    /\ pushAllSucceeded = TRUE
    /\ pc = "push"
    /\ ancFail = {}
    /\ cntFail1 = {}
    /\ cntFail2 = {}
    /\ stack = <<>>
    /\ repo = "owner/repo"
    /\ prs = {}
    /\ PrIdle
    /\ CallsIdle
    /\ SubmitIdle

NextPush == PushBranchStep

SpecPush == InitPush /\ [][NextPush]_vars

----------------------------------------------------------------------------
\* Properties of pushBranch / pushAllBranches (checked under SpecPush)

\* Position of a strategy in the fallback order.
PushRank(strategy) == CHOOSE i \in 1 .. Len(PushStrategies) : PushStrategies[i] = strategy

Attempted(r, strategy) == \E j \in 1 .. Len(r.attempts) : r.attempts[j].strategy = strategy

AttemptFailed(r, strategy) ==
    \E j \in 1 .. Len(r.attempts) : r.attempts[j].strategy = strategy /\ ~r.attempts[j].ok

PushResultsOfLocal == {i \in 1 .. Len(pushResults) : pushResults[i].branch \in localRefs}

\* C11: for a branch that exists locally pushBranch starts with the regular
\* push and runs its pushes in the order regular, set-upstream,
\* force-with-lease, force (so each at most once), runs none after the first
\* one that succeeded, and reports success exactly when one of them succeeded.
C11_FallbackChain ==
    \A i \in PushResultsOfLocal :
        LET r == pushResults[i]
            a == r.attempts
        IN /\ Len(a) >= 1
           /\ a[1].strategy = "regular"
           /\ \A j, k \in 1 .. Len(a) : j < k => PushRank(a[j].strategy) < PushRank(a[k].strategy)
           /\ \A j \in 1 .. Len(a) : a[j].ok => j = Len(a)
           /\ r.success <=> \E j \in 1 .. Len(a) : a[j].ok
           /\ r.success => r.strategy = a[Len(a)].strategy

\* C11 witness: a local branch for which all four pushes ran and only the last succeeded.
C11_Witness ==
    \E i \in PushResultsOfLocal :
        /\ Len(pushResults[i].attempts) = Len(PushStrategies)
        /\ pushResults[i].success
        /\ pushResults[i].strategy = "force"

\* C12: a branch absent on the remote whose regular and set-upstream pushes
\* both failed is reported failed with no force-with-lease and no force push;
\* force-with-lease is run only for a branch that is on the remote.
C12_NoLeaseAfterFailedUpstream ==
    \A i \in PushResultsOfLocal :
        LET r == pushResults[i]
        IN /\ (~r.onRemote /\ AttemptFailed(r, "regular") /\ AttemptFailed(r, "set-upstream"))
                => /\ ~r.success
                   /\ ~Attempted(r, "force-with-lease")
                   /\ ~Attempted(r, "force")
           /\ Attempted(r, "force-with-lease") => r.onRemote

\* C13: a plain force push is run only when allowForcePush is set and the
\* regular and the force-with-lease push of that branch have failed before it;
\* without allowForcePush no force push is run and a branch whose regular and
\* force-with-lease pushes failed is reported failed.
C13_ForceOnlyWhenAllowed ==
    \A i \in 1 .. Len(pushResults) :
        LET r == pushResults[i]
        IN /\ Attempted(r, "force")
                => /\ allowForcePush
                   /\ AttemptFailed(r, "regular")
                   /\ AttemptFailed(r, "force-with-lease")
                   /\ r.attempts[Len(r.attempts)].strategy = "force"
           /\ ~allowForcePush
                => /\ ~Attempted(r, "force")
                   /\ (AttemptFailed(r, "regular") /\ AttemptFailed(r, "force-with-lease"))
                        => (~r.success /\ r.strategy = "force-with-lease")

\* C13 witness: force pushes are not allowed and a branch on the remote was
\* reported failed after its regular and force-with-lease pushes failed.
C13_Witness ==
    /\ ~allowForcePush
    /\ \E i \in PushResultsOfLocal :
          /\ pushResults[i].onRemote
          /\ AttemptFailed(pushResults[i], "force-with-lease")
          /\ ~pushResults[i].success

\* C14: pushAllBranches handles the branches one by one in the order given,
\* whatever happened to the earlier ones; when it returns there is exactly one
\* result per branch and allSucceeded holds exactly when every result has
\* success = true.
C14_OneResultPerBranch ==
    /\ Len(pushResults) = pushIdx - 1
    /\ Len(pushResults) <= Len(branches)
    /\ \A i \in 1 .. Len(pushResults) : pushResults[i].branch = branches[i]
    /\ pushAllSucceeded <=> \A i \in 1 .. Len(pushResults) : pushResults[i].success
    /\ pc = "pushed" => Len(pushResults) = Len(branches)

\* C14 witness: pushAllBranches returned after a branch that failed was
\* followed by one that was pushed.
C14_Witness ==
    /\ pc = "pushed"
    /\ \E i \in 1 .. Len(pushResults) - 1 :
          ~pushResults[i].success /\ pushResults[i + 1].success

\* C34: a branch that is missing locally is skipped: pushBranch runs the
\* local check and nothing else (no remote check, no push of any strategy),
\* its result has success = false, and pushAllBranches has allSucceeded =
\* false from that branch on.
C34_MissingLocallyIsSkipped ==
    \A i \in 1 .. Len(pushResults) :
        (pushResults[i].branch \notin localRefs)
            => /\ ~pushResults[i].success
               /\ pushResults[i].attempts = <<>>
               /\ pushResults[i].calls = <<"show-ref">>
               /\ pushResults[i].message = "Branch doesn't exist locally"
               /\ ~pushAllSucceeded
               /\ pushResults[i].branch \in remote <=> pushResults[i].onRemote

\* C34 witness: pushAllBranches returned; the one branch missing locally was
\* skipped and every other branch was pushed.
C34_Witness ==
    /\ pc = "pushed"
    /\ Len(pushResults) = 3
    /\ pushResults[2].branch \notin localRefs
    /\ pushResults[2].calls = <<"show-ref">>
    /\ pushResults[1].success /\ pushResults[3].success
    /\ ~pushAllSucceeded

----------------------------------------------------------------------------
\* submitStack (stack/submit), run through withErrorHandling (index)

\* Mutant of getCurrentBranch: a detached HEAD is taken as a branch named HEAD.
getCurrentBranchDetachedOk(ref) ==
    IF ref = "" THEN err("NOT_GIT_REPO") ELSE ok(ref)

\* getCurrentBranch(): `git rev-parse --abbrev-ref HEAD` printed ref, "" when it exited non-zero.
getCurrentBranch(ref) ==
    IF ref = "" THEN err("NOT_GIT_REPO")
    ELSE IF ref = "HEAD" THEN err("NOT_GIT_REPO")
    ELSE ok(ref)

RECURSIVE join(_, _)
\* lines.join(separator)
join(lines, separator) ==
    IF lines = <<>> THEN ""
    ELSE IF Len(lines) = 1 THEN lines[1]
    ELSE lines[1] \o separator \o join(Tail(lines), separator)

\* const trunkBranches = ["main", "master"]
trunkBranches == <<"main", "master">>

\* A ref name as its path components: refs/remotes/origin/main is
\* <<"refs", "remotes", "origin", "main">>, the empty output is <<>>.
OriginPrefix == <<"refs", "remotes", "origin">>

\* What `git symbolic-ref refs/remotes/origin/HEAD` can return: the ref
\* origin/HEAD points at with exit code 0, or nothing (exit code 0 with no
\* output, or a failure with exit code 128).
SymRefResults ==
    {[exitCode |-> 0, stdout |-> OriginPrefix \o <<b>>] : b \in {"main", "master", "develop"}}
        \cup {[exitCode |-> 0, stdout |-> <<>>], [exitCode |-> 128, stdout |-> <<>>]}

\* symRefResult.stdout.replace("refs/remotes/origin/", "")
replaceOriginPrefix(stdout) ==
    IF Len(stdout) >= Len(OriginPrefix) /\ SubSeq(stdout, 1, Len(OriginPrefix)) = OriginPrefix
    THEN join(SubSeq(stdout, Len(OriginPrefix) + 1, Len(stdout)), "/")
    ELSE join(stdout, "/")

\* The outcomes of the ls-remote calls detectBaseBranch may make, one per
\* trunk name: TRUE = that call fails.
TrunkCheckFaults == [SeqToSet(trunkBranches) -> BOOLEAN]

\* Mutant of detectBaseBranch: master is tried before main.
detectBaseBranchMasterFirst(symRefResult, lsRemoteFailed) ==
    LET branch == IF symRefResult.exitCode = 0 /\ symRefResult.stdout # <<>>
                  THEN replaceOriginPrefix(symRefResult.stdout) ELSE ""
        trunkExists(trunk) ==
            LET existsRemotelyResult == branchExistsRemotely(trunk, lsRemoteFailed[trunk])
            IN \/ branchExistsLocally(trunk)
               \/ IF existsRemotelyResult.ok THEN existsRemotelyResult.value ELSE FALSE
    IN IF branch # "" THEN branch
       ELSE IF trunkExists(trunkBranches[2]) THEN trunkBranches[2]
       ELSE IF trunkExists(trunkBranches[1]) THEN trunkBranches[1]
       ELSE "master"

\* detectBaseBranch(): the branch origin/HEAD points at when symbolic-ref
\* gives one; else the first of trunkBranches that exists locally or that
\* the remote check reports (a failed check reads as false); else "master".
detectBaseBranch(symRefResult, lsRemoteFailed) ==
    LET branch == IF symRefResult.exitCode = 0 /\ symRefResult.stdout # <<>>
                  THEN replaceOriginPrefix(symRefResult.stdout) ELSE ""
        trunkExists(trunk) ==
            LET existsRemotelyResult == branchExistsRemotely(trunk, lsRemoteFailed[trunk])
            IN \/ branchExistsLocally(trunk)
               \/ IF existsRemotelyResult.ok THEN existsRemotelyResult.value ELSE FALSE
    IN IF branch # "" THEN branch
       ELSE IF trunkExists(trunkBranches[1]) THEN trunkBranches[1]
       ELSE IF trunkExists(trunkBranches[2]) THEN trunkBranches[2]
       ELSE "master"

\* Mutant of pcAfterGuard: the guard against running on the base branch is not applied.
pcAfterGuardNever(cur, base) == "detect"

\* if (currentBranch === baseBranch) { log.error(...); process.exit(1) }
pcAfterGuard(cur, base) == IF cur = base THEN "exited" ELSE "detect"

\* Mutant of pcAfterDetect: the pull requests are created right after detection.
pcAfterDetectToPrs(names) == "start"

\* pushAllBranches is called next; with no branch its loop has nothing to do.
pcAfterDetect(names) == IF names = <<>> THEN "pushed" ELSE "push"

\* Mutant of pcAfterPrereq: a failed check is repeated until it passes.
pcAfterPrereqRetry(prereqOk) == IF prereqOk THEN "start" ELSE "pushed"

\* Mutant of pcAfterPrereq: createAllPrs is called whatever the check returned.
pcAfterPrereqAlways(prereqOk) == "start"

\* Mutant of pcAfterPrereq: createAllPrs is called only when every push succeeded.
pcAfterPrereqNeedsPush(prereqOk) == IF prereqOk /\ pushAllSucceeded THEN "start" ELSE "skipped"

\* if (prereqResult.ok) { createAllPrs(...) } else { prSucceeded = false }
pcAfterPrereq(prereqOk) == IF prereqOk THEN "start" ELSE "skipped"

\* Mutant of exitCodeAtEnd: a run with issues ends with a non-zero exit code.
exitCodeAtEndStrict(push, pr) == IF push /\ pr THEN 0 ELSE 1

\* Mutant of finalMessage: a failed pull-request phase is reported only when the push failed too.
finalMessageIgnoresPrs(push, pr) ==
    IF push THEN "Done! Stack pushed and PRs created successfully."
    ELSE IF ~pr
    THEN "Done with issues: Some branches failed to push and some PRs failed to create."
    ELSE "Done with issues: Some branches failed to push."

\* The if / else-if chain that picks the final log.info line (the text after
\* its leading emoji).
finalMessage(push, pr) ==
    IF push /\ pr THEN "Done! Stack pushed and PRs created successfully."
    ELSE IF ~push /\ ~pr
    THEN "Done with issues: Some branches failed to push and some PRs failed to create."
    ELSE IF ~push THEN "Done with issues: Some branches failed to push."
    ELSE "Done with issues: Some PRs failed to create."

\* submitStack returns after its final message whatever pushSucceeded and
\* prSucceeded are, and the process ends with exit code 0.
exitCodeAtEnd(push, pr) == 0

\* submitStack up to the guard: an unresolved current branch is thrown and
\* handled by handleError (process.exit(1)); on the base branch the guard exits.
SubmitStart ==
    /\ pc = "submit"
    /\ \E symRefResult \in {r \in SymRefResults : r.stdout \in {<<>>, OriginPrefix \o <<"main">>}} :
       \E lsRemoteFailed \in TrunkCheckFaults :
          LET currentBranchResult == getCurrentBranch(headRef)
              base == detectBaseBranch(symRefResult, lsRemoteFailed)
          IN IF ~currentBranchResult.ok
             THEN /\ pc' = "exited"
                  /\ exitCode' = 1
                  /\ UNCHANGED <<currentBranch, baseBranch>>
             ELSE /\ currentBranch' = currentBranchResult.value
                  /\ baseBranch' = base
                  /\ pc' = pcAfterGuard(currentBranchResult.value, base)
                  /\ exitCode' = IF pcAfterGuard(currentBranchResult.value, base) = "exited"
                                 THEN 1 ELSE exitCode
    /\ UNCHANGED <<parents, head, ancFail, cntFail1, cntFail2, stack, prVars, pushVars,
                   headRef, prereq, pushSucceeded, prSucceeded, finalMessages, callVars>>

\* submitStack after findStackBranches: branchNames, and the entry of pushAllBranches.
PushAllBranches ==
    /\ pc = "detected"
    /\ branches' = StackNames
    /\ pushIdx' = 1
    /\ pushResults' = <<>>
    /\ pushAllSucceeded' = TRUE
    /\ pc' = pcAfterDetect(StackNames)
    /\ UNCHANGED <<repoVars, ancFail, cntFail1, cntFail2, stack, repo, remote, prs, idx,
                   prevBranch, results, allSucceeded, run, faulted, prevCodes, prevFaulted,
                   localRefs, allowForcePush, submitVars, callVars>>

\* checkGhPrerequisites(): gh on the PATH, then `gh auth status`.
checkGhPrerequisites(ghExists, authOk) ==
    IF ~ghExists THEN err("GH_NOT_FOUND")
    ELSE IF ~authOk THEN err("GH_NOT_AUTHENTICATED")
    ELSE ok("")

\* submitStack after pushAllBranches returned: the prerequisites check.
CheckGhPrerequisites ==
    /\ pc = "pushed"
    /\ \E ghExists \in BOOLEAN : \E authOk \in {a \in BOOLEAN : ghExists \/ a} :
          LET prereqResult == checkGhPrerequisites(ghExists, authOk)
          IN /\ prereq' = IF prereqResult.ok THEN "ok" ELSE prereqResult.value
             /\ pc' = pcAfterPrereq(prereqResult.ok)
    /\ UNCHANGED <<repoVars, ancFail, cntFail1, cntFail2, stack, prVars, pushVars,
                   headRef, pushSucceeded, prSucceeded, exitCode, finalMessages, callVars>>

\* The one createAllPrs call of a run.
SubmitCreateAllPrs == pc = "start" /\ CreateAllPrs

\* submitStack from the results of the two phases to its return.
Finish ==
    /\ pc \in {"done", "skipped"}
    /\ pushSucceeded' = pushAllSucceeded
    /\ prSucceeded' = IF pc = "done" THEN allSucceeded ELSE FALSE
    /\ exitCode' = exitCodeAtEnd(pushAllSucceeded, IF pc = "done" THEN allSucceeded ELSE FALSE)
    /\ finalMessages' = Append(finalMessages,
           finalMessage(pushAllSucceeded, IF pc = "done" THEN allSucceeded ELSE FALSE))
    /\ pc' = "finished"
    /\ UNCHANGED <<repoVars, ancFail, cntFail1, cntFail2, stack, prVars, pushVars,
                   headRef, prereq, callVars>>

\* A run of the tool in a repository with a linear history whose feature
\* branches each sit on the previous one or one commit above it: on f3, on
\* the trunk, on a detached HEAD ("HEAD") or outside a repository ("").
InitSubmit ==
    /\ parents = LinearGraph
    /\ head \in [BranchNames -> 0 .. Len(FeatureBranches)]
    /\ head["main"] = 0
    /\ \A i \in 1 .. Len(FeatureBranches) :
          LET below == IF i = 1 THEN 0 ELSE head[FeatureBranches[i - 1]]
          IN head[FeatureBranches[i]] \in {below, below + 1}
    /\ headRef \in {"f3", "main", "HEAD", ""}
    /\ currentBranch = ""
    /\ baseBranch = ""
    /\ remote \in {{}, SeqToSet(FeatureBranches)}
    /\ repo \in RepoNames
    /\ allowForcePush \in BOOLEAN
    /\ localRefs = BranchNames
    /\ pushIdx = 1
    /\ pushResults = <<>>
    /\ pushAllSucceeded = TRUE
    /\ prereq = "unchecked"
    /\ pushSucceeded = FALSE
    /\ prSucceeded = FALSE
    /\ exitCode = -1
    /\ finalMessages = <<>>
    /\ pc = "submit"
    /\ ancFail = {}
    /\ cntFail1 = {}
    /\ cntFail2 = {}
    /\ stack = <<>>
    /\ prs = {}
    /\ branches = <<>>
    /\ PrIdle
    /\ CallsIdle

NextSubmit ==
    \/ SubmitStart
    \/ FindStackBranches
    \/ PushAllBranches
    \/ PushBranchStep
    \/ CheckGhPrerequisites
    \/ SubmitCreateAllPrs
    \/ CreatePrStep
    \/ Finish

SpecSubmit == InitSubmit /\ [][NextSubmit]_vars

----------------------------------------------------------------------------
\* Properties of submitStack (checked under SpecSubmit)

\* Some `git push` was run.
PushAttemptMade == \E i \in 1 .. Len(pushResults) : pushResults[i].attempts # <<>>

\* createAllPrs was entered or createPrForBranch was called.
PrPhaseEntered == run > 0 \/ results # <<>>

\* findStackBranches has returned.
DetectionDone == pc \notin {"submit", "detect"}

\* pushAllBranches has returned a result for every branch of the stack.
AllPushesDone ==
    /\ DetectionDone
    /\ pc \notin {"detected", "push"}
    /\ branches = StackNames
    /\ Len(pushResults) = Len(branches)

\* The run was started on the base branch.
OnTrunk == getCurrentBranch(headRef).ok /\ getCurrentBranch(headRef).value = baseBranch

\* C16: in a run that passes the guard nothing is pushed before detection
\* has finished, the prerequisites are checked only after every push of every
\* branch has been attempted, and pull requests are looked up or created only
\* after the check; a later phase never changes what an earlier one produced.
C16_PhasesInOrder ==
    /\ [](/\ (pushResults # <<>>) => DetectionDone
          /\ (~DetectionDone \/ pc \in {"detected", "push"})
                => (prereq = "unchecked" /\ ~PrPhaseEntered)
          /\ (prereq # "unchecked") => AllPushesDone
          /\ PrPhaseEntered => (prereq = "ok" /\ AllPushesDone))
    /\ [][/\ (pushResults # <<>>) => stack' = stack
          /\ (prereq # "unchecked") => (pushResults' = pushResults /\ prereq' = prereq)]_vars

\* C16 witness: a finished run that pushed, passed the check and created a pull request.
C16_Witness ==
    /\ pc = "finished"
    /\ PushAttemptMade
    /\ prereq = "ok"
    /\ \E i \in 1 .. Len(results) : results[i].message = "PR created successfully"

\* C17: a run whose current branch is the base branch has exited with a
\* non-zero code straight from the guard: no stack was detected, nothing was
\* pushed, the prerequisites were not checked and no pull request call was made.
C17_GuardStopsOnTrunk ==
    (currentBranch # "" /\ currentBranch = baseBranch)
        => /\ pc = "exited"
           /\ exitCode # 0 /\ exitCode # -1
           /\ stack = <<>> /\ ancFail = {} /\ cntFail1 = {} /\ cntFail2 = {}
           /\ branches = <<>> /\ pushResults = <<>>
           /\ prereq = "unchecked"
           /\ ~PrPhaseEntered /\ prs = {}

\* C17 witness: the run was started on main and has exited.
C17_Witness == pc = "exited" /\ headRef = "main" /\ currentBranch = baseBranch

\* C18 as stated: the exit code is non-zero exactly for a run on the trunk.
C18_NonZeroOnlyOnTrunk == (exitCode # -1) => (exitCode # 0 <=> OnTrunk)

\* C18 (amended): the exit code is non-zero exactly for a run on the trunk or
\* a run whose current branch cannot be resolved; every run that gets past the
\* guard ends with exit code 0, whatever pushSucceeded and prSucceeded are.
C18_NonZeroOnlyOnTrunkOrUnresolved ==
    /\ (exitCode # -1) => (exitCode # 0 <=> (OnTrunk \/ ~getCurrentBranch(headRef).ok))
    /\ (pc = "finished") => exitCode = 0
    /\ (pc = "exited") => exitCode # 0 /\ exitCode # -1
    /\ (DetectionDone /\ pc # "exited") => (getCurrentBranch(headRef).ok /\ ~OnTrunk)

\* C18 witness: a run that finished with exit code 0 although a push failed
\* and a pull request could not be created.
C18_Witness ==
    /\ pc = "finished"
    /\ exitCode = 0
    /\ \E i \in 1 .. Len(pushResults) : ~pushResults[i].success
    /\ \E i \in 1 .. Len(results) : results[i].code = 1

\* C19: after a failed prerequisites check no pull request is looked up or
\* created for any branch and the run ends with prSucceeded false; every push
\* of the run was attempted before the check.
C19_FailedCheckSkipsPrs ==
    (prereq \notin {"unchecked", "ok"})
        => /\ ~PrPhaseEntered
           /\ prs = {}
           /\ AllPushesDone
           /\ pc \in {"skipped", "finished"}
           /\ (pc = "finished") => ~prSucceeded

\* C19 witness: a finished run whose check failed after the stack was pushed.
C19_Witness ==
    /\ pc = "finished"
    /\ prereq = "GH_NOT_AUTHENTICATED"
    /\ pushResults # <<>>
    /\ \A i \in 1 .. Len(pushResults) : pushResults[i].success

\* createAllPrs has returned after calling createPrForBranch once per stack
\* branch, in stack order.
OneCallPerStackBranch ==
    /\ run = 1
    /\ Len(results) = Len(stack)
    /\ \A i \in 1 .. Len(results) : results[i].branch = stack[i].name

\* C20 as stated: once the prerequisites check has passed, the run ends with
\* createPrForBranch called once per stack branch in stack order.
C20_PrPhaseCoversStack == (prereq = "ok" /\ pc = "finished") => OneCallPerStackBranch

\* C20 (amended): the same when the repository name can be determined;
\* createAllPrs is entered in any case, whatever the push results were.
C20_PrPhaseCoversStackWhenRepoKnown ==
    /\ (prereq = "ok" /\ pc = "finished") => run = 1
    /\ (prereq = "ok" /\ pc = "finished" /\ repo # "") => OneCallPerStackBranch
    /\ (prereq = "ok" /\ pc \in {"prs", "done"} /\ repo # "")
          => (/\ Len(results) = idx - 1
              /\ \A i \in 1 .. Len(results) : results[i].branch = stack[i].name)

\* C20 witness: a finished run with two or more stack branches in which a
\* push failed and the check passed.
C20_Witness ==
    /\ pc = "finished"
    /\ prereq = "ok"
    /\ repo # ""
    /\ Len(stack) >= 2
    /\ ~pushSucceeded
    /\ OneCallPerStackBranch

\* C21: a completed run has printed exactly one final message, the one the
\* pair (pushSucceeded, prSucceeded) selects; a run that has not completed
\* has printed none.
C21_FinalMessageByPair ==
    /\ (pc # "finished") => finalMessages = <<>>
    /\ (pc = "finished")
          => /\ Len(finalMessages) = 1
             /\ (pushSucceeded /\ prSucceeded)
                  <=> finalMessages[1] = "Done! Stack pushed and PRs created successfully."
             /\ (~pushSucceeded /\ ~prSucceeded)
                  <=> finalMessages[1] =
                        "Done with issues: Some branches failed to push and some PRs failed to create."
             /\ (~pushSucceeded /\ prSucceeded)
                  <=> finalMessages[1] = "Done with issues: Some branches failed to push."
             /\ (pushSucceeded /\ ~prSucceeded)
                  <=> finalMessages[1] = "Done with issues: Some PRs failed to create."

\* C21 witness: a completed run whose pushes all succeeded and whose
\* pull-request phase failed for one branch.
C21_Witness ==
    /\ pc = "finished"
    /\ pushSucceeded
    /\ ~prSucceeded
    /\ prereq = "ok"
    /\ pushResults # <<>>
    /\ finalMessages = <<"Done with issues: Some PRs failed to create.">>

\* The run has ended: at the guard (or on an unresolved branch), or after its final message.
Terminated == pc \in {"exited", "finished"}

\* Upper bound on the steps the run still takes: the phases ahead and the
\* iterations left in the loop it is in.
StepsLeft ==
    LET n == Len(AllLocalBranches)
    IN CASE pc = "submit" -> 2 * n + 6
         [] pc = "detect" -> 2 * n + 5
         [] pc = "detected" -> 2 * n + 4
         [] pc = "push" -> n + 3 + (Len(branches) + 1 - pushIdx)
         [] pc = "pushed" -> n + 3
         [] pc = "start" -> n + 2
         [] pc = "prs" -> 1 + (Len(branches) + 1 - idx)
         [] pc \in {"done", "skipped"} -> 1
         [] OTHER -> 0

\* The statement the run is at can be executed: a loop is entered only with
\* an element left, createAllPrs is called once.
CanStep ==
    \/ pc \in {"submit", "detect", "detected", "pushed", "done", "skipped"}
    \/ pc = "push" /\ pushIdx <= Len(branches)
    \/ pc = "start" /\ run < MaxRuns
    \/ pc = "prs" /\ idx <= Len(branches)

\* C26: every run ends, at the guard or after the final message: until then
\* the run can always take its next step, each step lowers a bound on the
\* steps left, no branch gets more than four push attempts and no branch
\* more than one createPrForBranch call.
C26_RunTerminates ==
    /\ [][StepsLeft' < StepsLeft]_vars
    /\ [](/\ Terminated \/ CanStep
          /\ StepsLeft >= 0
          /\ Terminated <=> StepsLeft = 0
          /\ Len(branches) <= Len(AllLocalBranches)
          /\ Len(pushResults) <= Len(branches)
          /\ \A i \in 1 .. Len(pushResults) :
                Len(pushResults[i].attempts) <= Len(PushStrategies)
          /\ Len(results) <= Len(branches)
          /\ run <= 1
          /\ Len(finalMessages) <= 1)

\* C26 witness: a run that ended after its final message with every push of
\* three branches failing on the fourth attempt and every pull request failing.
C26_Witness ==
    /\ pc = "finished"
    /\ Len(pushResults) = 3
    /\ \A i \in 1 .. Len(pushResults) : Len(pushResults[i].attempts) = Len(PushStrategies)
    /\ ~pushAllSucceeded
    /\ Len(results) = 3
    /\ \A i \in 1 .. Len(results) : results[i].code = 1

\* C35: with a known repository name createAllPrs has allSucceeded = false
\* exactly when some branch got code 1; codes 2 and 3 leave it true, so the
\* run can end with the success message while a stack branch has no pull
\* request.
C35_OnlyCode1FailsPrPhase ==
    /\ (run > 0 /\ repo # "")
          => (allSucceeded <=> \A i \in 1 .. Len(results) : results[i].code # 1)
    /\ (pc = "finished" /\ run > 0 /\ repo # "")
          => /\ prSucceeded <=> \A i \in 1 .. Len(results) : results[i].code # 1
             /\ (finalMessages = <<"Done! Stack pushed and PRs created successfully.">>)
                   <=> (pushSucceeded /\ \A i \in 1 .. Len(results) : results[i].code # 1)

\* C35 witness: the run ended with the success message; one stack branch
\* was skipped with code 3 and has no pull request.
C35_Witness ==
    /\ pc = "finished"
    /\ finalMessages = <<"Done! Stack pushed and PRs created successfully.">>
    /\ \E i \in 1 .. Len(results) :
          /\ results[i].code = 3
          /\ results[i].branch \in SeqToSet(StackNames)
          /\ ~PrExistsFor(results[i].branch)

\* C37: the list submitStack passes to pushAllBranches and createAllPrs has
\* no name twice and does not contain baseBranch; so no createPrForBranch
\* call of the run has branch = prBase and no result is the "Same as base
\* branch" skip.
C37_StackListIsDuplicateFree ==
    /\ DetectionDone
          => /\ \A i, j \in 1 .. Len(StackNames) : i # j => StackNames[i] # StackNames[j]
             /\ baseBranch \notin SeqToSet(StackNames)
    /\ \A i, j \in 1 .. Len(branches) : i # j => branches[i] # branches[j]
    /\ baseBranch \notin SeqToSet(branches)
    /\ \A i \in 1 .. Len(pushResults) : pushResults[i].branch # baseBranch
    /\ \A i \in 1 .. Len(results) :
          /\ results[i].branch # results[i].prBase
          /\ results[i].message # "Same as base branch"

\* C37 witness: the run ended after createPrForBranch was called for three
\* branches, the second and third with the branch before as prBase.
C37_Witness ==
    /\ pc = "finished"
    /\ Len(branches) = 3
    /\ Len(results) = 3
    /\ results[1].prBase = baseBranch
    /\ results[2].prBase = results[1].branch
    /\ results[3].prBase = results[2].branch

\* `git rev-parse --abbrev-ref HEAD` gave no branch: it exited non-zero
\* (not a repository) or printed HEAD (detached).
HeadUnresolved == headRef \in {"", "HEAD"}

\* C31: when the current branch cannot be resolved the run stops on a
\* NOT_GIT_REPO error with exit code 1 before the base branch is detected: no
\* stack is detected, nothing is pushed, the prerequisites are not checked
\* and no pull request call is made.
C31_UnresolvedBranchStopsRun ==
    (HeadUnresolved /\ pc # "submit")
        => /\ pc = "exited"
           /\ getCurrentBranch(headRef) = err("NOT_GIT_REPO")
           /\ exitCode = 1
           /\ currentBranch = "" /\ baseBranch = ""
           /\ stack = <<>> /\ ancFail = {} /\ cntFail1 = {} /\ cntFail2 = {}
           /\ branches = <<>> /\ pushResults = <<>>
           /\ prereq = "unchecked"
           /\ ~PrPhaseEntered /\ prs = {}
           /\ finalMessages = <<>>

\* C31 witness: a run started on a detached HEAD has exited with code 1.
C31_Witness == pc = "exited" /\ headRef = "HEAD" /\ exitCode = 1

----------------------------------------------------------------------------
\* findStackBranches, its Promise.all step call by call

\* Mutant of promiseAllValues: the values are collected as the lookups complete.
promiseAllValuesAsSettled(ps, order) ==
    [k \in 1 .. Len(order) |->
        [branch |-> ps[order[k]].branch, commitCountResult |-> ps[order[k]].commitCountResult]]

\* Promise.all resolves to the callbacks' return values in the order of the
\* array it was given, whatever the order in which they settled.
promiseAllValues(ps, order) ==
    [i \in 1 .. Len(ps) |->
        [branch |-> ps[i].branch, commitCountResult |-> ps[i].commitCountResult]]

\* .filter(({commitCountResult}) => commitCountResult.ok).map(... BranchInfo)
toBranchInfos(branchInfosResults) ==
    LET kept == SelectSeq(branchInfosResults, LAMBDA r : r.commitCountResult.ok)
    IN [i \in 1 .. Len(kept) |->
           [name |-> kept[i].branch, commitCount |-> kept[i].commitCountResult.value]]

\* The for-loop over filteredBranches (its calls are awaited one by one),
\* leaving candidateBranches for the map callback.
DetectLoop ==
    /\ pc = "detect"
    /\ \E fAnc \in SUBSET TrueAncestors(currentBranch, baseBranch) :
       \E fCnt1 \in SUBSET (TrueAncestors(currentBranch, baseBranch) \ fAnc) :
          LET cands == candidateBranches(currentBranch, baseBranch, fAnc, fCnt1)
          IN /\ ancFail' = fAnc
             /\ cntFail1' = fCnt1
             /\ promises' = [i \in 1 .. Len(cands) |->
                               [branch |-> cands[i], state |-> "idle",
                                commitCountResult |-> err("pending")]]
    /\ mapIdx' = 1
    /\ settledOrder' = <<>>
    /\ pc' = "map"
    /\ UNCHANGED <<repoVars, cntFail2, stack, prVars, pushVars, submitVars, pushCmp, baseCall,
                   prCall, combo>>

\* candidateBranches.map(async (branch) => ...): the callback for one
\* candidate runs up to its await, which starts `git rev-list --count`; map
\* calls it for the next candidate without waiting.
IssueCount ==
    /\ pc = "map"
    /\ mapIdx <= Len(promises)
    /\ promises' = [promises EXCEPT ![mapIdx].state = "inFlight"]
    /\ mapIdx' = mapIdx + 1
    /\ pc' = IF mapIdx = Len(promises) THEN "await" ELSE "map"
    /\ UNCHANGED <<repoVars, ancFail, cntFail1, cntFail2, stack, prVars, pushVars, submitVars,
                   settledOrder, pushCmp, baseCall, prCall, combo>>

\* One of the lookups in flight completes, with an error or with its count.
SettleCount ==
    /\ pc = "await"
    /\ \E i \in 1 .. Len(promises) : \E failed \in BOOLEAN :
          /\ promises[i].state = "inFlight"
          /\ promises' = [promises EXCEPT
                ![i].state = "settled",
                ![i].commitCountResult = getCommitCount(baseBranch, promises[i].branch, failed)]
          /\ settledOrder' = Append(settledOrder, i)
          /\ cntFail2' = IF failed THEN cntFail2 \cup {promises[i].branch} ELSE cntFail2
    /\ UNCHANGED <<repoVars, pc, ancFail, cntFail1, stack, prVars, pushVars, submitVars,
                   mapIdx, pushCmp, baseCall, prCall, combo>>

\* Every lookup has completed: Promise.all resolves, then filter, map, sort, return.
PromiseAllResolve ==
    /\ pc = "await"
    /\ \A i \in 1 .. Len(promises) : promises[i].state = "settled"
    /\ stack' = sortByCommitCount(toBranchInfos(promiseAllValues(promises, settledOrder)))
    /\ pc' = "detected"
    /\ UNCHANGED <<repoVars, ancFail, cntFail1, cntFail2, prVars, pushVars, submitVars,
                   countVars, pushCmp, baseCall, prCall, combo>>

\* findStackBranches called on f3 in a repository with a linear history and
\* the feature branches anywhere on it.
InitCount ==
    /\ parents = LinearGraph
    /\ head \in [BranchNames -> 0 .. Len(FeatureBranches)]
    /\ head["main"] = 0
    /\ baseBranch = "main"
    /\ currentBranch = "f3"
    /\ pc = "detect"
    /\ ancFail = {}
    /\ cntFail1 = {}
    /\ cntFail2 = {}
    /\ stack = <<>>
    /\ repo = "owner/repo"
    /\ remote = {}
    /\ prs = {}
    /\ branches = <<>>
    /\ PrIdle
    /\ CallsIdle
    /\ PushIdle
    /\ SubmitIdle

NextCount == DetectLoop \/ IssueCount \/ SettleCount \/ PromiseAllResolve

SpecCount == InitCount /\ [][NextCount]_vars

\* Number of `git rev-list --count` calls that have been started and have not completed.
CountsInFlight == Cardinality({i \in 1 .. Len(promises) : promises[i].state = "inFlight"})

\* C22: at no point are two calls in flight at the same time.
C22_OneCallAtATime == CountsInFlight <= 1

\* Position of a branch in discovery order: currentBranch first, then the
\* other branches in enumeration order.
DiscoveryIndex(b) ==
    LET order == <<currentBranch>> \o SelectSeq(AllLocalBranches, LAMBDA x : x # currentBranch)
    IN CHOOSE i \in 1 .. Len(order) : order[i] = b

\* C29: what findStackBranches returns is a function of the graph, the
\* enumeration order and the query outcomes alone, whatever the order in
\* which the commit-count lookups completed, and branches with equal
\* commitCount are in discovery order.
C29_DeterministicStableOrder ==
    (pc = "detected")
        => /\ stack = findStackBranches(currentBranch, baseBranch, ancFail, cntFail1, cntFail2)
           /\ \A i, j \in 1 .. Len(stack) :
                 (i < j /\ stack[i].commitCount = stack[j].commitCount)
                    => DiscoveryIndex(stack[i].name) < DiscoveryIndex(stack[j].name)

\* C29 witness: three branches with the same commitCount were returned after
\* their lookups completed in the reverse of the order they were started in.
C29_Witness ==
    /\ pc = "detected"
    /\ Len(stack) = 3
    /\ stack[1].commitCount = stack[3].commitCount
    /\ settledOrder = <<3, 2, 1>>

----------------------------------------------------------------------------
\* pushBranch next to push_branch of stack-submit.sh

\* The pushes push_branch runs as long as none succeeds: for a branch it did
\* not find on the remote the regular and the set-upstream push, after which
\* it returns 1; otherwise the regular and the force-with-lease push and,
\* with ALLOW_FORCE_PUSH=1, the force push.
push_branch_plan(existsRemotely, allow) ==
    IF ~existsRemotely THEN <<"regular", "set-upstream">>
    ELSE <<"regular", "force-with-lease">> \o (IF allow THEN <<"force">> ELSE <<>>)

\* push_branch "$branch": return 0 is success; branch_exists_remotely is the
\* exit status of git ls-remote, so a failed check reads as "no".
push_branch(branch, allow, lsRemoteFailed, o) ==
    LET exists_remotely == (~lsRemoteFailed) /\ branch \in remote
        attempts == pushAttempts(push_branch_plan(exists_remotely, allow), o)
    IN IF ~branchExistsLocally(branch)
       THEN [success |-> FALSE, attempts |-> <<>>]
       ELSE [success |-> attempts[Len(attempts)].ok, attempts |-> attempts]

\* One branch pushed by both implementations from the same repository state
\* and under the same outcomes of the remote check and of the pushes.
ComparePush ==
    /\ pc = "compare"
    /\ \E lsRemoteFailed \in BOOLEAN : \E o \in PushOutcomes :
          LET branch == branches[1]
              ts == pushBranch(branch, allowForcePush, lsRemoteFailed, o)
              sh == push_branch(branch, allowForcePush, lsRemoteFailed, o)
          IN pushCmp' = [lsRemoteFailed |-> lsRemoteFailed, o |-> o,
                         ts |-> [success |-> ts.success, attempts |-> ts.attempts,
                                 calls |-> ts.calls, message |-> ts.message],
                         sh |-> sh]
    /\ pc' = "compared"
    /\ UNCHANGED <<repoVars, ancFail, cntFail1, cntFail2, stack, prVars, pushVars, submitVars,
                   countVars, baseCall, prCall, combo>>

\* Every combination of local existence, remote existence and allowForcePush for one branch.
InitCompare ==
    /\ parents = LinearGraph
    /\ head = [b \in BranchNames |-> 0]
    /\ baseBranch = "main"
    /\ currentBranch = "f3"
    /\ branches = <<"f1">>
    /\ localRefs \in SUBSET SeqToSet(branches)
    /\ remote \in SUBSET SeqToSet(branches)
    /\ allowForcePush \in BOOLEAN
    /\ pushIdx = 1
    /\ pushResults = <<>>
    /\ pushAllSucceeded = TRUE
    /\ pc = "compare"
    /\ ancFail = {}
    /\ cntFail1 = {}
    /\ cntFail2 = {}
    /\ stack = <<>>
    /\ repo = "owner/repo"
    /\ prs = {}
    /\ PrIdle
    /\ CallsIdle
    /\ SubmitIdle

NextCompare == ComparePush

SpecCompare == InitCompare /\ [][NextCompare]_vars

\* C27: pushBranch and push_branch run the same pushes in the same order and
\* agree on success.
C27_SameAsBash ==
    (pc = "compared")
        => /\ pushCmp.ts.attempts = pushCmp.sh.attempts
           /\ pushCmp.ts.success = pushCmp.sh.success

\* C39: pushBranch checks the remote once, after the local check and before
\* the regular push; when that check fails the branch is taken as absent on
\* origin and is still pushed: the regular push, then the set-upstream push
\* if that fails, and the call succeeds when one of its pushes does.
C39_FailedCheckStillPushes ==
    (pc = "compared" /\ branches[1] \in localRefs)
        => LET ts == pushCmp.ts
               n == Len(ts.attempts)
           IN /\ Len(SelectSeq(ts.calls, LAMBDA c : c = "ls-remote")) = 1
              /\ ts.calls[2] = "ls-remote"
              /\ Len(ts.calls) = 2 + n
              /\ n >= 1 /\ ts.attempts[1].strategy = "regular"
              /\ pushCmp.lsRemoteFailed
                    => /\ ts.message # "Branch doesn't exist locally"
                       /\ (~ts.attempts[1].ok)
                             => (n >= 2 /\ ts.attempts[2].strategy = "set-upstream")
                       /\ ts.success <=> \E i \in 1 .. n : ts.attempts[i].ok

\* C39 witness: the remote check of a branch that is on origin failed, the
\* regular push failed and the set-upstream push succeeded.
C39_Witness ==
    /\ pc = "compared"
    /\ pushCmp.lsRemoteFailed
    /\ branches[1] \in remote
    /\ pushCmp.ts.calls = <<"show-ref", "ls-remote", "push regular", "push set-upstream">>
    /\ pushCmp.ts.success

----------------------------------------------------------------------------
\* Title and body of a new pull request (createPrForBranch, getCommitMessages)

\* Subject line of a commit; every commit has its own.
CommitSubject(c) == "commit " \o ToString(c)

RECURSIVE NewestFirst(_)
\* A set of commits in the order `git log` prints them: newest first
\* (a commit is created after its parents, so ids grow with time).
NewestFirst(S) ==
    IF S = {} THEN <<>>
    ELSE LET newest == CHOOSE c \in S : \A d \in S : d <= c
         IN <<newest>> \o NewestFirst(S \ {newest})

\* --format=%s prints the subject, --format="- %s" the subject after "- ".
FormatSubject(format, c) ==
    IF format = "- %s" THEN "- " \o CommitSubject(c) ELSE CommitSubject(c)

\* Mutant of getCommitMessages: the log is taken relative to the trunk.
getCommitMessagesFromTrunk(base, branch, format, failed) ==
    LET log == NewestFirst(RevList(baseBranch, branch))
    IN IF failed \/ log = <<>> THEN <<>>
       ELSE [i \in 1 .. Len(log) |-> FormatSubject(format, log[i])]

\* getCommitMessages({base, branch, format}): the lines of
\* `git log base..branch --oneline --format=<format>`, [] when git exits
\* non-zero or prints nothing (failed = it exited non-zero).
getCommitMessages(base, branch, format, failed) ==
    LET log == NewestFirst(RevList(base, branch))
    IN IF failed \/ log = <<>> THEN <<>>
       ELSE [i \in 1 .. Len(log) |-> FormatSubject(format, log[i])]

\* const prTitle = commitMessages[0] || branch
prTitle(commitMessages, branch) ==
    IF commitMessages # <<>> THEN commitMessages[1] ELSE branch

\* prBody: "" unless formattedMessages has a line.
prBody(formattedMessages) ==
    IF Len(formattedMessages) > 0 THEN "## Commits\n\n" \o join(formattedMessages, "\n")
    ELSE ""

\* One createPrForBranch call, for branches[1] on top of prevBranch (or of the
\* trunk), under outcomes f of its checks and of its two git log calls.
CreatePrCall ==
    /\ pc = "call"
    /\ LET branch == branches[1]
           prBase == prBaseFor(prevBranch, baseBranch)
       IN \E f \in NormalFaults(branch, prBase) :
             LET result == createPrForBranch(branch, prBase, f)
                 createIssued == CallsIssued(branch, prBase, f).prCreate
             IN \E titleLogFailed \in {x \in BOOLEAN : createIssued \/ ~x} :
                \E bodyLogFailed \in {x \in BOOLEAN : createIssued \/ ~x} :
                   LET commitMessages == getCommitMessages(prBase, branch, "%s", titleLogFailed)
                       formattedMessages ==
                           getCommitMessages(prBase, branch, "- %s", bodyLogFailed)
                   IN /\ prCall' = [branch |-> branch, prBase |-> prBase,
                                    code |-> result.code, message |-> result.message,
                                    createIssued |-> createIssued,
                                    calls |-> CallsIssued(branch, prBase, f),
                                    prViewFound |-> /\ CallsIssued(branch, prBase, f).prView
                                                    /\ prViewFound(branch, f.prView),
                                    prsBefore |-> prs,
                                    lsRemoteExit |-> lsRemoteExitCode(branch, f.lsRemote),
                                    existsRemotelyResult |->
                                        branchExistsRemotely(branch, f.lsRemote),
                                    titleLogFailed |-> titleLogFailed,
                                    bodyLogFailed |-> bodyLogFailed,
                                    formattedMessages |->
                                        IF createIssued THEN formattedMessages ELSE <<>>,
                                    title |-> IF createIssued THEN prTitle(commitMessages, branch)
                                              ELSE "",
                                    body |-> IF createIssued THEN prBody(formattedMessages)
                                             ELSE ""]
                      /\ prs' = IF result.message = "PR created successfully"
                                THEN prs \cup {[head |-> branch, base |-> prBase]}
                                ELSE prs
    /\ pc' = "called"
    /\ UNCHANGED <<repoVars, ancFail, cntFail1, cntFail2, stack, repo, remote, branches, idx,
                   prevBranch, results, allSucceeded, run, faulted, prevCodes, prevFaulted,
                   pushVars, submitVars, countVars, pushCmp, baseCall, combo>>

\* createPrForBranch called for f2, as the first branch of the chain or on
\* top of f1, in a repository with any commit graph, where f2 has no pull
\* request yet or has one onto main or onto f1.
InitPrCall ==
    /\ parents \in CommitGraphs
    /\ head \in [BranchNames -> Commits]
    /\ head["main"] = 0
    /\ head["f3"] = 0
    /\ baseBranch = "main"
    /\ currentBranch = "f3"
    /\ branches = <<"f2">>
    /\ prevBranch \in {"", "f1"}
    /\ remote \in {{}, {"f1", "f2"}}
    /\ prs \in {{}} \cup {{[head |-> "f2", base |-> b]} : b \in {"main", "f1"}}
    /\ repo = "owner/repo"
    /\ pc = "call"
    /\ idx = 1
    /\ results = <<>>
    /\ allSucceeded = TRUE
    /\ run = 0
    /\ faulted = FALSE
    /\ prevCodes = <<>>
    /\ prevFaulted = FALSE
    /\ ancFail = {}
    /\ cntFail1 = {}
    /\ cntFail2 = {}
    /\ stack = <<>>
    /\ CallsIdle
    /\ PushIdle
    /\ SubmitIdle

NextPrCall == CreatePrCall

SpecPrCall == InitPrCall /\ [][NextPrCall]_vars

\* The commits that are in the branch of the call and not in its prBase.
UniqueCommits == RevList(prCall.prBase, prCall.branch)

\* The call ran `gh pr create` with the output of both of its git log calls.
CreatedFromLogs ==
    /\ pc = "called"
    /\ prCall.createIssued
    /\ ~prCall.titleLogFailed
    /\ ~prCall.bodyLogFailed

\* C23: the title passed to `gh pr create` is the subject of the oldest
\* commit that is in the branch and not in prBase.
C23_TitleIsOldestCommit ==
    CreatedFromLogs
        => prCall.title = CommitSubject(CHOOSE c \in UniqueCommits : \A d \in UniqueCommits : c <= d)

\* C30: the title passed to `gh pr create` is the subject of a commit that is
\* in the branch and not in prBase, or the branch name; the body has one
\* "- <subject>" line for each of those commits and for no other commit,
\* joined under the "## Commits" heading, and is empty when no line was read.
C30_TextFromUniqueCommitsOnly ==
    (pc = "called" /\ prCall.createIssued)
        => LET lines == prCall.formattedMessages
           IN /\ prCall.title \in {CommitSubject(c) : c \in UniqueCommits} \cup {prCall.branch}
              /\ (~prCall.titleLogFailed) => prCall.title # prCall.branch
              /\ SeqToSet(lines) \subseteq {"- " \o CommitSubject(c) : c \in UniqueCommits}
              /\ (~prCall.bodyLogFailed)
                    => /\ Len(lines) = Cardinality(UniqueCommits)
                       /\ SeqToSet(lines) = {"- " \o CommitSubject(c) : c \in UniqueCommits}
              /\ (lines = <<>>) <=> (prCall.body = "")
              /\ (lines # <<>>) => prCall.body = "## Commits\n\n" \o join(lines, "\n")

\* C30 witness: a pull request for f2 on top of f1, where f2 has two commits
\* of its own and shares a commit with f1 that is not in main.
C30_Witness ==
    /\ CreatedFromLogs
    /\ prCall.prBase = "f1"
    /\ Cardinality(UniqueCommits) = 2
    /\ RevList("main", "f1") \cap Reach(head["f2"]) # {}
    /\ Len(prCall.formattedMessages) = 2

----------------------------------------------------------------------------
\* detectBaseBranch on its own

\* One detectBaseBranch call under any result of symbolic-ref and of the
\* remote checks.
DetectBaseBranch ==
    /\ pc = "base"
    /\ \E symRefResult \in SymRefResults : \E lsRemoteFailed \in TrunkCheckFaults :
          /\ baseBranch' = detectBaseBranch(symRefResult, lsRemoteFailed)
          /\ baseCall' = [symRefResult |-> symRefResult, lsRemoteFailed |-> lsRemoteFailed]
    /\ pc' = "based"
    /\ UNCHANGED <<parents, head, currentBranch, ancFail, cntFail1, cntFail2, stack, prVars,
                   pushVars, submitVars, countVars, pushCmp, prCall, combo>>

\* A repository with or without local main and master, origin with or
\* without them.
InitBase ==
    /\ parents = LinearGraph
    /\ head = [b \in BranchNames |-> 0]
    /\ currentBranch = "f3"
    /\ baseBranch = ""
    /\ localRefs \in {{"f3"} \cup trunks : trunks \in SUBSET SeqToSet(trunkBranches)}
    /\ remote \in SUBSET SeqToSet(trunkBranches)
    /\ allowForcePush = FALSE
    /\ pushIdx = 1
    /\ pushResults = <<>>
    /\ pushAllSucceeded = TRUE
    /\ pc = "base"
    /\ ancFail = {}
    /\ cntFail1 = {}
    /\ cntFail2 = {}
    /\ stack = <<>>
    /\ repo = "owner/repo"
    /\ prs = {}
    /\ branches = <<>>
    /\ PrIdle
    /\ CallsIdle
    /\ SubmitIdle

NextBase == DetectBaseBranch

SpecBase == InitBase /\ [][NextBase]_vars

\* symbolic-ref named the branch origin/HEAD points at.
SymRefLookupOk ==
    /\ baseCall.symRefResult.exitCode = 0
    /\ Len(baseCall.symRefResult.stdout) > Len(OriginPrefix)

\* The trunk name is a local branch or a branch of origin.
TrunkExists(trunk) == trunk \in localRefs \/ trunk \in remote

\* The trunk name is a local branch, or the remote check found it on origin.
TrunkFound(trunk) ==
    trunk \in localRefs \/ (trunk \in remote /\ ~baseCall.lsRemoteFailed[trunk])

\* C33 as stated: the priority is decided by whether main and master exist
\* locally or on origin.
C33_BasePriorityByExistence ==
    (pc = "based")
        => /\ baseBranch # ""
           /\ SymRefLookupOk => baseBranch = baseCall.symRefResult.stdout[Len(OriginPrefix) + 1]
           /\ (~SymRefLookupOk /\ TrunkExists("main")) => baseBranch = "main"
           /\ (~SymRefLookupOk /\ ~TrunkExists("main")) => baseBranch = "master"

\* C33 (amended): detectBaseBranch returns a non-empty name: the branch
\* origin/HEAD points at when symbolic-ref gives it; otherwise main if it is
\* a local branch or the remote check finds it; otherwise master (found or
\* as the fallback).  A remote check that fails counts as "not found".
C33_BasePriorityByCheck ==
    (pc = "based")
        => /\ baseBranch # ""
           /\ SymRefLookupOk => baseBranch = baseCall.symRefResult.stdout[Len(OriginPrefix) + 1]
           /\ (~SymRefLookupOk /\ TrunkFound("main")) => baseBranch = "main"
           /\ (~SymRefLookupOk /\ ~TrunkFound("main")) => baseBranch = "master"

\* C33 witness: symbolic-ref failed, main is only on origin, master is a
\* local branch, and main was chosen.
C33_Witness ==
    /\ pc = "based"
    /\ baseCall.symRefResult.exitCode # 0
    /\ "main" \notin localRefs /\ "main" \in remote
    /\ "master" \in localRefs
    /\ baseBranch = "main"

\* C36: when the lookup by head branch finds a pull request,
\* createPrForBranch returns code 0 ("PR already exists") without reading the
\* commit count and without a create call, and the pull requests are what
\* they were before the call, whatever base the existing one has.
C36_ExistingPrIsLeftAlone ==
    (pc = "called" /\ prCall.prViewFound)
        => /\ prCall.code = 0
           /\ prCall.message = "PR already exists"
           /\ ~prCall.calls.revList
           /\ ~prCall.calls.prCreate
           /\ prs = prCall.prsBefore

\* C36 witness: the branch has no commit that is not in prBase and has a
\* pull request onto another base; the call returned code 0.
C36_Witness ==
    /\ pc = "called"
    /\ prCall.prViewFound
    /\ ZeroCommits(prCall.prBase, prCall.branch)
    /\ \E p \in prs : p.head = prCall.branch /\ p.base # prCall.prBase
    /\ prCall.code = 0

\* C32: branchExistsRemotely returns ok(true) exactly for exit code 0 of
\* ls-remote, ok(false) exactly for exit code 2 and an error for every other
\* exit code; a branch origin lists is never reported absent, a failed check
\* is never reported as "does not exist", and createPrForBranch answers such
\* a failure with code 1 ("Error checking remote status"), not with code 2.
C32_RemoteCheckHasThreeOutcomes ==
    (pc = "called")
        => LET r == prCall.existsRemotelyResult
               onOrigin == prCall.branch \in remote
           IN /\ (prCall.lsRemoteExit = 0) <=> (r = ok(TRUE))
              /\ (prCall.lsRemoteExit = 2) <=> (r = ok(FALSE))
              /\ (prCall.lsRemoteExit \notin {0, 2}) <=> ~r.ok
              /\ (r = ok(TRUE)) => onOrigin
              /\ (r = ok(FALSE)) => ~onOrigin
              /\ (~r.ok) => /\ prCall.code = 1
                            /\ prCall.message = "Error checking remote status"
                            /\ ~prCall.createIssued
              /\ (prCall.message = "Branch not pushed yet")
                    => (prCall.code = 2 /\ r = ok(FALSE))

\* C32 witness: the remote check of a branch that is on origin failed and the
\* call returned code 1.
C32_Witness ==
    /\ pc = "called"
    /\ prCall.branch \in remote
    /\ prCall.lsRemoteExit = 128
    /\ ~prCall.existsRemotelyResult.ok
    /\ prCall.code = 1

----------------------------------------------------------------------------
\* Result combinators (utils/result): map, mapErr, andThen

ResultValues == 0 .. MaxValue

\* Result<T, E> over the values: ok(v) and err(e).
Results == {ok(v) : v \in ResultValues} \cup {err(e) : e \in ResultValues}

\* A call of a combinator: what it returns and the arguments it applied fn to.
Returned(out, calls) == [out |-> out, calls |-> calls]

\* map({result, fn})
map(result, fn) ==
    IF result.ok THEN Returned(ok(fn[result.value]), <<result.value>>)
    ELSE Returned(result, <<>>)

\* mapErr({result, fn})
mapErr(result, fn) ==
    IF ~result.ok THEN Returned(err(fn[result.value]), <<result.value>>)
    ELSE Returned(result, <<>>)

\* Mutant of andThen: what fn returns is wrapped in ok, as map does.
andThenWrapped(result, fn) ==
    IF result.ok THEN Returned(ok(fn[result.value]), <<result.value>>)
    ELSE Returned(result, <<>>)

\* andThen({result, fn})
andThen(result, fn) ==
    IF result.ok THEN Returned(fn[result.value], <<result.value>>)
    ELSE Returned(result, <<>>)

\* One combinator called on any Result with any fn over the values.
ApplyCombinator ==
    /\ pc = "apply"
    /\ \/ \E result \in Results : \E fn \in [ResultValues -> ResultValues] :
             combo' = [op |-> "map", result |-> result, fn |-> fn, ret |-> map(result, fn)]
       \/ \E result \in Results : \E fn \in [ResultValues -> ResultValues] :
             combo' = [op |-> "mapErr", result |-> result, fn |-> fn, ret |-> mapErr(result, fn)]
       \/ \E result \in Results : \E fn \in [ResultValues -> Results] :
             combo' = [op |-> "andThen", result |-> result, fn |-> fn,
                       ret |-> andThen(result, fn)]
    /\ pc' = "applied"
    /\ UNCHANGED <<repoVars, ancFail, cntFail1, cntFail2, stack, prVars, pushVars, submitVars,
                   countVars, pushCmp, baseCall, prCall>>

InitResult ==
    /\ parents = LinearGraph
    /\ head = [b \in BranchNames |-> 0]
    /\ baseBranch = "main"
    /\ currentBranch = "f3"
    /\ pc = "apply"
    /\ ancFail = {}
    /\ cntFail1 = {}
    /\ cntFail2 = {}
    /\ stack = <<>>
    /\ repo = "owner/repo"
    /\ remote = {}
    /\ prs = {}
    /\ branches = <<>>
    /\ PrIdle
    /\ CallsIdle
    /\ PushIdle
    /\ SubmitIdle

NextResult == ApplyCombinator

SpecResult == InitResult /\ [][NextResult]_vars

\* C28: on the variant it does not handle a combinator returns its argument
\* as it is and does not call fn (map and andThen on err, mapErr on ok); on
\* the variant it handles it calls fn once, on the value or error, and map
\* returns ok(fn(value)), mapErr returns err(fn(error)), andThen returns
\* fn(value), be it ok or err.
C28_CombinatorsPassThrough ==
    (pc = "applied")
        => LET in == combo.result
               out == combo.ret.out
               handled == IF combo.op = "mapErr" THEN ~in.ok ELSE in.ok
           IN /\ ~handled => (out = in /\ combo.ret.calls = <<>>)
              /\ handled => combo.ret.calls = <<in.value>>
              /\ (handled /\ combo.op = "map") => out = ok(combo.fn[in.value])
              /\ (handled /\ combo.op = "mapErr") => out = err(combo.fn[in.value])
              /\ (handled /\ combo.op = "andThen") => out = combo.fn[in.value]

\* C28 witness: andThen on an ok result with an fn that returns an err.
C28_Witness ==
    /\ pc = "applied"
    /\ combo.op = "andThen"
    /\ combo.result.ok
    /\ ~combo.ret.out.ok
    /\ combo.ret.calls # <<>>

====
